---------------------------- MODULE Spec2Model ----------------------------
(***************************************************************************)
(* A model of the connector-harness RSK runtime: the HTTP client with its  *)
(* transformer pipeline, the dependency resolver, the token storage, the   *)
(* OAuth2 handler and the executor.  Each component has its own            *)
(* specification over the shared variables; the variables of components a  *)
(* specification does not exercise stay at their initial values.           *)
(***************************************************************************)
EXTENDS Integers, Sequences, FiniteSets, TLC

(***************************************************************************)
(* JSON / JavaScript values.  Every runtime value is a record of one shape *)
(* so that any two values can be compared: t is the JavaScript type.       *)
(***************************************************************************)
MkS(s) == [t |-> "s", s |-> s, n |-> 0, b |-> FALSE, l |-> <<>>]
MkN(n) == [t |-> "n", s |-> "", n |-> n, b |-> FALSE, l |-> <<>>]
MkB(b) == [t |-> "b", s |-> "", n |-> 0, b |-> b, l |-> <<>>]
MkL(l) == [t |-> "l", s |-> "", n |-> 0, b |-> FALSE, l |-> l]
MkO(s) == [t |-> "o", s |-> s, n |-> 0, b |-> FALSE, l |-> <<>>]
JNull == [t |-> "null", s |-> "", n |-> 0, b |-> FALSE, l |-> <<>>]
JUndef == [t |-> "undef", s |-> "", n |-> 0, b |-> FALSE, l |-> <<>>]
JNaN == [t |-> "nan", s |-> "", n |-> 0, b |-> FALSE, l |-> <<>>]

\* Boolean(v): JavaScript truthiness.
Truthy(v) ==
  CASE v.t = "b" -> v.b
    [] v.t = "n" -> v.n # 0
    [] v.t = "s" -> v.s # ""
    [] v.t \in {"null", "undef", "nan"} -> FALSE
    [] OTHER -> TRUE

\* A finite map (a JavaScript object used as a dictionary): absent keys are
\* undefined.
EmptyMap == <<>>
Has(m, k) == k \in DOMAIN m
Put(m, k, v) == [x \in (DOMAIN m) \cup {k} |-> IF x = k THEN v ELSE m[x]]

\* A JavaScript object whose key order matters (extractedData, a Map): the
\* entries in insertion order; assigning an existing key keeps its place.
OHas(d, k) == \E i \in 1..Len(d) : d[i].k = k
OGet(d, k) == d[CHOOSE i \in 1..Len(d) : d[i].k = k].v
OPut(d, k, v) ==
  IF OHas(d, k)
    THEN [i \in 1..Len(d) |-> IF d[i].k = k THEN [k |-> k, v |-> v] ELSE d[i]]
    ELSE Append(d, [k |-> k, v |-> v])
OValues(d) == [i \in 1..Len(d) |-> d[i].v]

(***************************************************************************)
(* Expressions, after parsing: literal, variable, binary operator, call.   *)
(***************************************************************************)
NoExpr == [k |-> "none", v |-> JUndef, name |-> "", args |-> <<>>]
Lit(v) == [k |-> "lit", v |-> v, name |-> "", args |-> <<>>]
Var(n) == [k |-> "var", v |-> JUndef, name |-> n, args |-> <<>>]
Bin(op, l, r) == [k |-> "bin", v |-> JUndef, name |-> op, args |-> <<l, r>>]
Call(f, a) == [k |-> "call", v |-> JUndef, name |-> f, args |-> a]

Thrown == [ok |-> FALSE, v |-> JUndef]
Ok(v) == [ok |-> TRUE, v |-> v]

\* The auth state of types.ts, as a context holds it and as the token file
\* holds it: exists is FALSE for undefined / no file.  origin is history, not
\* part of the file: the run that created the document.
NoAuth == [exists |-> FALSE, accessToken |-> JUndef, refreshToken |-> JUndef,
           expiresAt |-> 0, authyValues |-> EmptyMap, origin |-> 0]

SystemVarNames == {"precog_state", "precog_root_uri", "precog_redirect_uri",
                   "wsk_to_rsk_redirect_uri", "wsk_to_rsk_oauth2_code"}

\* ExpressionEvaluator.resolveVariable: system variables, then authy values,
\* then extracted data, then credentials; a miss throws.
resolveVariable(varName, ctx) ==
  LET sys == ctx.systemVariables
      cred == ctx.credentials
      auth == ctx.authState
  IN  IF varName \in SystemVarNames /\ Has(sys, varName) THEN Ok(sys[varName])
      ELSE IF varName = "wsk_to_rsk_client_id" /\ Has(cred, "Client Id")
        THEN Ok(cred["Client Id"])
      ELSE IF varName = "wsk_to_rsk_client_secret" /\ Has(cred, "Client Secret")
        THEN Ok(cred["Client Secret"])
      ELSE IF varName = "wsk_to_rsk_auth_token" /\ auth.exists
                /\ auth.accessToken.t # "undef"
        THEN Ok(auth.accessToken)
      ELSE IF varName = "wsk_to_rsk_refresh_token" /\ auth.exists
                /\ auth.refreshToken.t # "undef"
        THEN Ok(auth.refreshToken)
      ELSE IF auth.exists /\ Has(auth.authyValues, varName)
        THEN Ok(auth.authyValues[varName])
      ELSE IF OHas(ctx.extractedData, varName)
        THEN Ok(OGet(ctx.extractedData, varName))
      ELSE IF Has(cred, varName) THEN Ok(cred[varName])
      ELSE Thrown

\* The binary operators the model's expressions use (a == b is loose
\* equality; the model compares values of one type only).
applyOp(op, a, b) ==
  CASE op = "==" -> MkB(a = b)
    [] op = "!=" -> MkB(a # b)
    [] op = ">=" -> MkB(a.t = "n" /\ b.t = "n" /\ a.n >= b.n)
    [] op = ">" -> MkB(a.t = "n" /\ b.t = "n" /\ a.n > b.n)
    [] op = "&&" -> IF Truthy(a) THEN b ELSE a
    [] op = "||" -> IF Truthy(a) THEN a ELSE b
    [] OTHER -> JNaN

\* FUNCTIONS of the evaluator that the model's expressions use.
KnownFunctions == {"count", "not", "to_string"}
applyFn(f, args) ==
  CASE f = "count" -> IF Len(args) > 0 /\ args[1].t = "l"
                        THEN MkN(Len(args[1].l)) ELSE MkN(0)
    [] f = "not" -> MkB(~Truthy(IF Len(args) > 0 THEN args[1] ELSE JUndef))
    [] f = "to_string" -> IF Len(args) > 0 THEN args[1] ELSE MkS("undefined")
    [] OTHER -> JUndef

\* ExpressionEvaluator.evaluate: the value, or Thrown when a variable is not
\* found or a function is unknown.
RECURSIVE evaluateExpression(_, _)
evaluateExpression(e, ctx) ==
  CASE e.k = "lit" -> Ok(e.v)
    [] e.k = "var" -> resolveVariable(e.name, ctx)
    [] e.k = "bin" ->
         LET l == evaluateExpression(e.args[1], ctx)
             r == evaluateExpression(e.args[2], ctx)
         IN  IF l.ok /\ r.ok THEN Ok(applyOp(e.name, l.v, r.v)) ELSE Thrown
    [] e.k = "call" ->
         IF e.name \notin KnownFunctions THEN Thrown
         ELSE LET n == Len(e.args)
                  rs == [i \in 1..n |-> evaluateExpression(e.args[i], ctx)]
              IN  IF \A i \in 1..n : rs[i].ok
                    THEN Ok(applyFn(e.name, [i \in 1..n |-> rs[i].v]))
                    ELSE Thrown
    [] OTHER -> Thrown

\* evaluateCondition: Boolean(evaluate(condition)); ok = FALSE when it throws.
evaluateCondition(condition, ctx) ==
  LET r == evaluateExpression(condition, ctx)
  IN  IF r.ok THEN Ok(MkB(Truthy(r.v))) ELSE Thrown


(***************************************************************************)
(* State.                                                                  *)
(***************************************************************************)
VARIABLES
  \* HttpClient.request / executeWithRetry
  h_pc,            \* "idle", "loop", "returned", "raised"
  h_trs,           \* the transformers named by the request, in order
  h_headers,       \* variable names the request's header templates use
  h_ctx,           \* the request context
  h_script,        \* what the server answers, attempt by attempt
  h_tail,          \* what the server answers once the script is used up
  attemptNumber,   \* executeWithRetry's attemptNumber
  h_log,           \* the calls, sleeps and fail matches so far, in order
  h_result,        \* the RequestResult returned
  h_error          \* the message of the error raised

httpVars == <<h_pc, h_trs, h_headers, h_ctx, h_script, h_tail, attemptNumber,
              h_log, h_result, h_error>>

VARIABLES
  \* OAuth2Handler.authorize / waitForCallback
  oa_pc,           \* "idle", "waiting", "resolved", "rejected"
  oa_expected,     \* the state the callback is validated against
  oa_server,       \* "none", "listening", "closed", "failed"
  oa_timer,        \* "none", "armed", "fired": the 5 minute timeout
  oa_log,          \* the requests the listener answered, with the status sent
  oa_sockets,      \* activeSockets: how many connections are tracked
  oa_result,       \* what the promise resolved with: code and receivedState
  oa_error         \* the message the promise was rejected with

oauthVars == <<oa_pc, oa_expected, oa_server, oa_timer, oa_log, oa_sockets,
              oa_result,
               oa_error>>

VARIABLES
  \* TokenStorage: the persisted document of the manifest
  ts_doc

storeVars == <<ts_doc>>

VARIABLES
  \* DependencyResolver.extractValues, called on its own
  rv_calls,        \* the calls made so far
  rv_select,       \* the select descriptor of the last call
  rv_data,         \* the response it was applied to
  rv_context,      \* the context it was given
  rv_values,       \* the values the call yielded
  rv_writes        \* the saveAuthyValue calls it made, in order

resolverVars == <<rv_calls, rv_select, rv_data, rv_context, rv_values,
                  rv_writes>>

VARIABLES
  \* RskExecutor.execute
  ex_pc,           \* "idle", "running", "done", "failed" (execute rejected)
  ex_run,          \* the runs started so far
  ex_manifest,     \* the manifest the runs are of
  ex_force,        \* config.forceReauth of the run
  ex_authState,    \* this.authState
  ex_tasks,        \* what is left to do, first thing first
  ex_visited,      \* visitedUrls of execute
  ex_subVisited,   \* the visited set of the current call from processEnvNode
  ex_responses,    \* responseData: request name to its responses, in order
  ex_stats,        \* stats
  ex_errors,       \* errors: the request names, in order
  ex_log,          \* what the run did, in order
  ex_inflight      \* the client.get calls not settled yet (their log index)

execVars == <<ex_pc, ex_run, ex_manifest, ex_force, ex_authState, ex_tasks,
              ex_visited, ex_subVisited, ex_responses, ex_stats, ex_errors,
              ex_log, ex_inflight>>

VARIABLES
  \* Contexts as objects
  cx_obj,          \* the heap: the records contexts point to, by reference
  cx_ctx,          \* the context objects made so far
  cx_made,         \* what each context read as when it was handed out
  cx_from,         \* the context and the edge each context was made from
  cx_edges,        \* the edges resolved: what went in, which children came out
  cx_ops           \* the operations done so far

ctxVars == <<cx_obj, cx_ctx, cx_made, cx_from, cx_edges, cx_ops>>

VARIABLES
  \* RskExecutor.findEntryRequests, called on its own
  fe_calls,        \* the calls made so far
  fe_manifest,     \* the manifest of the executor of the last call
  fe_found         \* the names the call returned

entryVars == <<fe_calls, fe_manifest, fe_found>>

VARIABLES
  \* TokenStorage, called on its own
  ts_calls,        \* the calls made so far
  ts_last,         \* the last call: its name
  ts_written,      \* per field, the value the last call that set it gave
  ts_before,       \* the call before the last: its name
  ts_ttl,          \* the expiresIn of the last updateAccessToken
  ts_now,          \* Date.now() at the last call
  ts_expired       \* what the last isTokenExpired returned

callVars ==
  <<ts_calls, ts_last, ts_written, ts_before, ts_ttl, ts_now, ts_expired>>

VARIABLES
  \* RskExecutor.saveDatasets, called on its own
  ds_calls,        \* the calls made so far
  ds_datasets,     \* rsk.config.datasets of the last call
  ds_extracted,    \* the extractedData it was given: request name to results
  ds_written,      \* the writeFileSync calls it made, in order
  ds_threw         \* whether it threw

datasetVars == <<ds_calls, ds_datasets, ds_extracted, ds_written, ds_threw>>

VARIABLES
  \* PostHogClient and its RateLimiter
  rl_now,          \* Date.now()
  rl_windows,      \* RateLimiter.windows: minute and hour
  rl_calls,        \* per call of get: where it is, its attempt, its timer
  rl_limited,      \* the 429 responses received so far
  rl_retryAt       \* history: the latest instant a retry-after header named

limiterVars == <<rl_now, rl_windows, rl_calls, rl_limited, rl_retryAt>>

VARIABLES
  \* processEnvNode up to the call of authorize, and authorize up to
  \* waitForCallback
  au_pc,           \* "idle", "opened", "listening", "failed"
  au_template,     \* the query parameters of args.authorizeUrl
  au_state,        \* precogState, the state the run generated
  au_opened,       \* the URL handed to openBrowser
  au_url,          \* the URL authorize builds and logs
  au_expected      \* the state handed to waitForCallback

authUrlVars == <<au_pc, au_template, au_state, au_opened, au_url, au_expected>>

\* What the steps of one component leave alone: the other components' state.
notHttp ==
  <<oauthVars, storeVars, resolverVars, execVars, ctxVars, entryVars,
    callVars, datasetVars, limiterVars,
    authUrlVars>>
notOAuth ==
  <<httpVars, storeVars, resolverVars, execVars, ctxVars, entryVars,
    callVars, datasetVars, limiterVars,
    authUrlVars>>
notResolver ==
  <<httpVars, oauthVars, execVars, ctxVars, entryVars, callVars, datasetVars, limiterVars,
    authUrlVars>>
notExec ==
  <<httpVars, oauthVars, resolverVars, ctxVars, entryVars, callVars,
    datasetVars, limiterVars,
    authUrlVars>>
notCtx ==
  <<httpVars, oauthVars, storeVars, resolverVars, execVars, entryVars,
    callVars, datasetVars, limiterVars,
    authUrlVars>>
notEntry ==
  <<httpVars, oauthVars, storeVars, resolverVars, execVars, ctxVars,
    callVars, datasetVars, limiterVars,
    authUrlVars>>
notStore ==
  <<httpVars, oauthVars, resolverVars, execVars, ctxVars, entryVars,
    datasetVars, limiterVars,
    authUrlVars>>
notDatasets ==
  <<httpVars, oauthVars, storeVars, resolverVars, execVars, ctxVars,
    entryVars, callVars, limiterVars,
    authUrlVars>>
notLimiter ==
  <<httpVars, oauthVars, storeVars, resolverVars, execVars, ctxVars,
    entryVars, callVars, datasetVars,
    authUrlVars>>

(***************************************************************************)
(* Transformer pipeline (transformer-pipeline.ts).                         *)
(***************************************************************************)
None == 0 - 1

DefaultRetries == 3
DefaultInitialDelay == 1000
DefaultMaxWait == 60000
maxAttemptsOffByOne == 10 + 1
maxAttempts == 10
BackoffBase == 1000

Min(a, b) == IF a <= b THEN a ELSE b

\* A retry/fail/reauth condition: status (None when absent), expr, message
\* ("" when absent).
Cond(status, expr, message) ==
  [status |-> status, expr |-> expr, message |-> message]

NoResult == [status |-> 0, body |-> JUndef]

\* checkRetryCondition / checkFailCondition / checkReauthCondition: a status
\* match wins; otherwise the expression, evaluated with the response and the
\* status added to extractedData, decides (and may throw).
checkCondition(condition, result, ctx) ==
  IF condition.status # None /\ result.status = condition.status
    THEN Ok(MkB(TRUE))
  ELSE IF condition.expr.k # "none"
    THEN evaluateCondition(condition.expr,
           [ctx EXCEPT !.extractedData =
              OPut(OPut(ctx.extractedData, "response", result.body),
                   "status", MkN(result.status))])
  ELSE Ok(MkB(FALSE))

\* The conditions of a kind of all named transformers, flattened in the order
\* the classifiers scan them: each with its transformer.
RECURSIVE flatConds(_, _)
flatConds(trs, kind) ==
  IF trs = <<>> THEN <<>>
  ELSE LET tr == Head(trs)
           cs == IF kind = "retry" THEN tr.retrywhere ELSE tr.failwhere
       IN  [i \in 1..Len(cs) |-> [tr |-> tr, c |-> cs[i]]]
             \o flatConds(Tail(trs), kind)

\* The first condition of the scan that matches or throws (0 when none).
RECURSIVE firstHit(_, _, _, _)
firstHit(cs, i, result, ctx) ==
  IF i > Len(cs) THEN 0
  ELSE LET m == checkCondition(cs[i].c, result, ctx)
       IN  IF ~m.ok \/ m.v.b THEN i ELSE firstHit(cs, i + 1, result, ctx)

\* The retry delay of shouldRetry at an attempt.
retryDelay(retry, attempt) ==
  LET initialDelay == IF retry.initialDelay = None THEN DefaultInitialDelay
                      ELSE retry.initialDelay
      maxWait == IF retry.maxWait = None THEN DefaultMaxWait ELSE retry.maxWait
  IN  Min(initialDelay * 2 ^ (attempt - 1), maxWait)

maxRetriesOf(tr) == IF tr.retries = None THEN DefaultRetries ELSE tr.retries

\* TransformerPipeline.shouldRetry: thrown, or {retry, delay}.
shouldRetry(trs, result, attempt, ctx) ==
  LET cs == flatConds(trs, "retry")
      i == firstHit(cs, 1, result, ctx)
  IN  IF i = 0 THEN [thrown |-> FALSE, retry |-> FALSE, delay |-> 0]
      ELSE IF ~checkCondition(cs[i].c, result, ctx).ok
        THEN [thrown |-> TRUE, retry |-> FALSE, delay |-> 0]
      ELSE IF attempt >= maxRetriesOf(cs[i].tr)
        THEN [thrown |-> FALSE, retry |-> FALSE, delay |-> 0]
      ELSE [thrown |-> FALSE, retry |-> TRUE,
            delay |-> retryDelay(cs[i].tr, attempt)]

\* TransformerPipeline.shouldFail: thrown, or {fail, message}.
shouldFail(trs, result, ctx) ==
  LET cs == flatConds(trs, "fail")
      i == firstHit(cs, 1, result, ctx)
  IN  IF i = 0 THEN [thrown |-> FALSE, fail |-> FALSE, message |-> ""]
      ELSE IF ~checkCondition(cs[i].c, result, ctx).ok
        THEN [thrown |-> TRUE, fail |-> FALSE, message |-> ""]
      ELSE [thrown |-> FALSE, fail |-> TRUE,
            message |-> IF cs[i].c.message # "" THEN cs[i].c.message
                        ELSE "Request failed due to fail condition"]

(***************************************************************************)
(* HttpClient.request and executeWithRetry (http-client.ts).               *)
(***************************************************************************)
MaxScript == 2

Transformer(retrywhere, retries, initialDelay, maxWait, failwhere) ==
  [retrywhere |-> retrywhere, retries |-> retries,
   initialDelay |-> initialDelay, maxWait |-> maxWait, failwhere |-> failwhere]

StatusIs(n) == Bin("==", Var("status"), Lit(MkN(n)))

\* The retrywhere and failwhere lists the requests of the model use.
RetryLists == {<<Cond(429, NoExpr, "")>>, <<Cond(None, StatusIs(500), "")>>,
               <<Cond(None, Var("retry_flag"), ""), Cond(429, NoExpr, "")>>}
FailLists == {<<>>, <<Cond(500, NoExpr, "server error")>>,
              <<Cond(None, StatusIs(500), "")>>,
              <<Cond(None, Var("fail_flag"), "bad flag")>>}
DelayPairs == {<<None, None>>, <<10, None>>, <<10, 15>>, <<0, None>>}

HttpTransformers ==
  {Transformer(<<>>, None, None, None, f) : f \in FailLists}
    \cup {Transformer(r, n, d[1], d[2], f) :
            r \in RetryLists, n \in {None, 2, 12}, d \in DelayPairs,
            f \in FailLists}

\* What one attempt meets: fetch (or reading or parsing the body) throws, or
\* a response with a status.
Outcome(kind, status) == [kind |-> kind, status |-> status]
Outcomes == {Outcome("throw", 0), Outcome("resp", 200), Outcome("resp", 429),
             Outcome("resp", 500)}
Scripts == UNION {[1..n -> Outcomes] : n \in 0..MaxScript}

\* The context of the request: what the header templates and the condition
\* expressions resolve against.
HttpContext ==
  [credentials |-> Put(EmptyMap, "API Key", MkS("k")), authState |-> NoAuth,
   systemVariables |-> EmptyMap, extractedData |-> EmptyMap]

Event(e, v) == [e |-> e, v |-> v]
Calls(log) == Len(SelectSeq(log, LAMBDA x : x.e = "call"))
Sleeps(log) == LET z == SelectSeq(log, LAMBDA x : x.e = "sleep")
               IN  [i \in 1..Len(z) |-> z[i].v]

\* interpolateString over the header templates: throws when a variable of a
\* template is not found.
headersResolve(headers, ctx) ==
  \A i \in 1..Len(headers) : resolveVariable(headers[i], ctx).ok

\* The answer to the attempt about to be made.
nextOutcome ==
  IF attemptNumber + 1 <= Len(h_script) THEN h_script[attemptNumber + 1]
  ELSE h_tail

resultOf(o) == [status |-> o.status, body |-> MkO("body")]

\* HttpClient.request: look the request up, build the headers and the body,
\* then run executeWithRetry.
HttpRequest ==
  /\ UNCHANGED notHttp
  /\ h_pc = "idle"
  /\ \E tr \in HttpTransformers, sc \in Scripts, tl \in Outcomes,
        hd \in {<<"API Key">>, <<"API Key", "missing">>} :
       /\ h_trs' = <<tr>>
       /\ h_script' = sc
       /\ h_tail' = tl
       /\ h_headers' = hd
       /\ IF headersResolve(hd, h_ctx)
            THEN h_pc' = "loop" /\ h_error' = h_error
            ELSE h_pc' = "raised" /\ h_error' = "Variable not found"
  /\ UNCHANGED <<h_ctx, attemptNumber, h_log, h_result>>

\* The catch block of executeWithRetry: back off and go on while attempts
\* remain, rethrow at the last one.
catchBlock(log, attempt, message) ==
  IF attempt < maxAttempts
    THEN /\ h_log' = Append(log, Event("sleep", BackoffBase * 2 ^ (attempt - 1)))
         /\ h_pc' = "loop"
         /\ h_error' = h_error
    ELSE /\ h_log' = log
         /\ h_pc' = "raised"
         /\ h_error' = message

\* One pass of the while loop in which fetch, response.text() or JSON.parse
\* throws.
AttemptThrows ==
  /\ UNCHANGED notHttp
  /\ h_pc = "loop" /\ attemptNumber < maxAttempts
  /\ nextOutcome.kind = "throw"
  /\ attemptNumber' = attemptNumber + 1
  /\ catchBlock(Append(h_log, Event("call", attemptNumber + 1)),
                attemptNumber + 1, "fetch failed")
  /\ UNCHANGED <<h_trs, h_headers, h_ctx, h_script, h_tail, h_result>>

\* One pass in which a response arrives and shouldFail matches (or a
\* classifier throws): the error is thrown inside the try block.
AttemptFails ==
  /\ UNCHANGED notHttp
  /\ h_pc = "loop" /\ attemptNumber < maxAttempts
  /\ nextOutcome.kind = "resp"
  /\ LET result == resultOf(nextOutcome)
         failCheck == shouldFail(h_trs, result, h_ctx)
         retryCheck == shouldRetry(h_trs, result, attemptNumber + 1, h_ctx)
         called == Append(h_log, Event("call", attemptNumber + 1))
     IN  /\ failCheck.thrown \/ failCheck.fail
               \/ (~failCheck.fail /\ retryCheck.thrown)
         /\ catchBlock(IF failCheck.fail
                         THEN Append(called, Event("fail", attemptNumber + 1))
                         ELSE called,
                       attemptNumber + 1,
                       IF failCheck.fail THEN failCheck.message
                       ELSE "Expression evaluation failed")
  /\ attemptNumber' = attemptNumber + 1
  /\ UNCHANGED <<h_trs, h_headers, h_ctx, h_script, h_tail, h_result>>

\* One pass in which shouldRetry answers retry with a non-zero delay: sleep
\* and continue.
AttemptRetries ==
  /\ UNCHANGED notHttp
  /\ h_pc = "loop" /\ attemptNumber < maxAttempts
  /\ nextOutcome.kind = "resp"
  /\ LET result == resultOf(nextOutcome)
         failCheck == shouldFail(h_trs, result, h_ctx)
         retryCheck == shouldRetry(h_trs, result, attemptNumber + 1, h_ctx)
     IN  /\ ~failCheck.thrown /\ ~failCheck.fail /\ ~retryCheck.thrown
         /\ retryCheck.retry /\ retryCheck.delay # 0
         /\ h_log' = h_log \o <<Event("call", attemptNumber + 1),
                                Event("sleep", retryCheck.delay)>>
  /\ attemptNumber' = attemptNumber + 1
  /\ UNCHANGED <<h_pc, h_trs, h_headers, h_ctx, h_script, h_tail, h_result,
                 h_error>>

\* One pass that returns the response.
AttemptReturns ==
  /\ UNCHANGED notHttp
  /\ h_pc = "loop" /\ attemptNumber < maxAttempts
  /\ nextOutcome.kind = "resp"
  /\ LET result == resultOf(nextOutcome)
         failCheck == shouldFail(h_trs, result, h_ctx)
         retryCheck == shouldRetry(h_trs, result, attemptNumber + 1, h_ctx)
     IN  /\ ~failCheck.thrown /\ ~failCheck.fail /\ ~retryCheck.thrown
         /\ ~(retryCheck.retry /\ retryCheck.delay # 0)
         /\ h_result' = result
  /\ h_log' = Append(h_log, Event("call", attemptNumber + 1))
  /\ attemptNumber' = attemptNumber + 1
  /\ h_pc' = "returned"
  /\ UNCHANGED <<h_trs, h_headers, h_ctx, h_script, h_tail, h_error>>

\* The while loop ends with every attempt used up.
AttemptsExhausted ==
  /\ UNCHANGED notHttp
  /\ h_pc = "loop" /\ attemptNumber >= maxAttempts
  /\ h_pc' = "raised"
  /\ h_error' = "Request failed after 10 attempts"
  /\ UNCHANGED <<h_trs, h_headers, h_ctx, h_script, h_tail, attemptNumber,
                 h_log, h_result>>

executeWithRetry ==
  AttemptThrows \/ AttemptFails \/ AttemptRetries \/ AttemptReturns
    \/ AttemptsExhausted

HttpInit ==
  /\ h_pc = "idle"
  /\ h_trs = <<>>
  /\ h_headers = <<>>
  /\ h_ctx = HttpContext
  /\ h_script = <<>>
  /\ h_tail = Outcome("resp", 200)
  /\ attemptNumber = 0
  /\ h_log = <<>>
  /\ h_result = NoResult
  /\ h_error = ""

HttpNext == HttpRequest \/ executeWithRetry

(***************************************************************************)
(* OAuth2Handler (oauth2-handler.ts): authorize and waitForCallback.       *)
(***************************************************************************)
MaxOtherRequests == 2

\* url.searchParams.get of an absent parameter is null.
NullParam == "<null>"
\* if (x): null and the empty string are falsy.
Present(x) == x # NullParam /\ x # ""

CodeParams == {NullParam, "", "c1"}
StateParams == {NullParam, "", "s1", "gen", "evil"}
ErrorParams == {NullParam, "", "access_denied"}
DescriptionParams == {NullParam, "denied by user"}

NoCallbackResult == [code |-> NullParam, receivedState |-> NullParam]

\* callbackVerdict without the state validation.
callbackVerdictNoStateCheck(code, state, error, expectedState) ==
  IF Present(error)
    THEN [status |-> 200, resolve |-> FALSE, message |-> "Authorization failed"]
  ELSE IF ~Present(code)
    THEN [status |-> 400, resolve |-> FALSE,
          message |-> "Authorization code missing from callback"]
  ELSE [status |-> 200, resolve |-> TRUE, message |-> ""]

\* The request handler of the callback server for a request to /callback:
\* the status it answers with, whether the promise resolves, and the message
\* it rejects with.
callbackVerdict(code, state, error, expectedState) ==
  IF Present(error)
    THEN [status |-> 200, resolve |-> FALSE, message |-> "Authorization failed"]
  ELSE IF ~Present(code)
    THEN [status |-> 400, resolve |-> FALSE,
          message |-> "Authorization code missing from callback"]
  ELSE IF state # expectedState
    THEN [status |-> 400, resolve |-> FALSE,
          message |-> "State parameter mismatch - possible CSRF attack"]
  ELSE [status |-> 200, resolve |-> TRUE, message |-> ""]

\* authorize: use the state supplied or generate one, then waitForCallback
\* creates the server, arms the timeout and starts listening.
Authorize ==
  /\ UNCHANGED notOAuth
  /\ oa_pc = "idle"
  /\ \E supplied \in {"", "s1"} :
       oa_expected' = IF supplied # "" THEN supplied ELSE "gen"
  /\ oa_pc' = "waiting"
  /\ oa_server' = "listening"
  /\ oa_timer' = "armed"
  /\ UNCHANGED <<oa_log, oa_sockets, oa_result, oa_error>>

\* forceCloseServer: every tracked socket destroyed and the set cleared, the
\* server closed.
Listener(server, sockets) == [server |-> server, sockets |-> sockets]
forceCloseServerLeavesSockets(server, sockets) ==
  Listener(IF server = "listening" THEN "closed" ELSE server, sockets)
forceCloseServer(server, sockets) ==
  Listener(IF server = "listening" THEN "closed" ELSE server, 0)

\* The 'connection' event of a request: it comes on a new connection, which
\* is tracked, or on one kept alive.
Connections(sockets) == {sockets + 1} \cup (IF sockets > 0 THEN {sockets} ELSE {})

\* A request to another path than /callback: 404, the flow keeps waiting.
OtherPathRequest ==
  /\ UNCHANGED notOAuth
  /\ oa_server = "listening"
  /\ Len(oa_log) < MaxOtherRequests
  /\ oa_log' = Append(oa_log, [path |-> "other", code |-> NullParam,
                               state |-> NullParam, error |-> NullParam,
                               status |-> 404])
  /\ oa_sockets' \in Connections(oa_sockets)
  /\ UNCHANGED <<oa_pc, oa_expected, oa_server, oa_timer, oa_result, oa_error>>

\* The 'close' event of a socket: the peer hung up, the socket is dropped
\* from the set.
SocketClosed ==
  /\ UNCHANGED notOAuth
  /\ oa_server = "listening" /\ oa_sockets > 0
  /\ oa_sockets' = oa_sockets - 1
  /\ UNCHANGED <<oa_pc, oa_expected, oa_server, oa_timer, oa_log, oa_result,
                 oa_error>>

\* A request to /callback: answered, the server force-closed, the promise
\* settled.
CallbackRequest ==
  /\ UNCHANGED notOAuth
  /\ oa_server = "listening"
  /\ \E code \in CodeParams, state \in StateParams, error \in ErrorParams,
        description \in DescriptionParams :
       LET v == callbackVerdict(code, state, error, oa_expected)
       IN  /\ oa_log' = Append(oa_log, [path |-> "callback", code |-> code,
                                        state |-> state, error |-> error,
                                        status |-> v.status])
           /\ IF oa_pc # "waiting"
                THEN UNCHANGED <<oa_pc, oa_result, oa_error>>
              ELSE IF v.resolve
                THEN /\ oa_pc' = "resolved"
                     /\ oa_result' = [code |-> code, receivedState |-> state]
                     /\ oa_error' = oa_error
              ELSE /\ oa_pc' = "rejected"
                   /\ oa_error' = v.message
                   /\ oa_result' = oa_result
  /\ \E sockets \in Connections(oa_sockets) :
       /\ oa_server' = forceCloseServer(oa_server, sockets).server
       /\ oa_sockets' = forceCloseServer(oa_server, sockets).sockets
  /\ UNCHANGED <<oa_expected, oa_timer>>

\* The server's 'error' event (the port is taken): the promise is rejected,
\* the server is not closed by the handler.
ServerError ==
  /\ UNCHANGED notOAuth
  /\ oa_server = "listening" /\ oa_log = <<>>
  /\ oa_server' = "failed"
  /\ IF oa_pc = "waiting"
       THEN oa_pc' = "rejected" /\ oa_error' = "listen failed"
       ELSE UNCHANGED <<oa_pc, oa_error>>
  /\ UNCHANGED <<oa_expected, oa_timer, oa_log, oa_sockets, oa_result>>

\* The 5 minute timer, never cleared: force-closes the server and rejects
\* (a no-op on a promise already settled).
CallbackTimeout ==
  /\ UNCHANGED notOAuth
  /\ oa_timer = "armed"
  /\ oa_timer' = "fired"
  /\ oa_server' = forceCloseServer(oa_server, oa_sockets).server
  /\ oa_sockets' = forceCloseServer(oa_server, oa_sockets).sockets
  /\ IF oa_pc = "waiting"
       THEN oa_pc' = "rejected" /\ oa_error' = "Authorization timeout"
       ELSE UNCHANGED <<oa_pc, oa_error>>
  /\ UNCHANGED <<oa_expected, oa_log, oa_result>>

OAuthInit ==
  /\ oa_pc = "idle"
  /\ oa_expected = ""
  /\ oa_server = "none"
  /\ oa_timer = "none"
  /\ oa_log = <<>>
  /\ oa_sockets = 0
  /\ oa_result = NoCallbackResult
  /\ oa_error = ""

OAuthNext ==
  Authorize \/ OtherPathRequest \/ SocketClosed \/ CallbackRequest
    \/ ServerError \/ CallbackTimeout

(***************************************************************************)
(* Token storage (token-storage.ts): the document is one file, absent      *)
(* until something is saved.                                               *)
(***************************************************************************)
\* load() || { authyValues: {} }, then authyValues[key] = value, then save.
saveAuthyValue(doc, key, value) ==
  LET authState == IF doc.exists THEN doc ELSE [NoAuth EXCEPT !.exists = TRUE]
  IN  [authState EXCEPT !.authyValues = Put(@, key, value)]

\* The writes of one extraction, applied in the order they were awaited.
RECURSIVE saveAll(_, _)
saveAll(doc, writes) ==
  IF writes = <<>> THEN doc
  ELSE saveAll(saveAuthyValue(doc, Head(writes).key, Head(writes).value),
               Tail(writes))

\* expiresIn: left out, or a number of seconds.
ExpiresIn(given, n) == [given |-> given, n |-> n]

\* save then load: JSON.stringify leaves out the members whose value is
\* undefined, JSON.parse gives back the rest.
stringifyParse(authState) ==
  [authState EXCEPT
     !.authyValues =
       [k \in {x \in DOMAIN @ : @[x].t # "undef"} |-> @[k]]]

\* updateAccessToken: load() || {}, accessToken, expiresAt when expiresIn is
\* given.
updateAccessToken(doc, accessToken, expiresIn, now) ==
  LET authState == IF doc.exists THEN doc ELSE [NoAuth EXCEPT !.exists = TRUE]
  IN  [authState EXCEPT
         !.accessToken = accessToken,
         !.expiresAt = IF expiresIn.given
                         THEN now + (expiresIn.n - 60) * 1000
                         ELSE @]

\* updateRefreshTokenFromScratch: the token saved in a new document.
updateRefreshTokenFromScratch(doc, refreshToken) ==
  [NoAuth EXCEPT !.exists = TRUE, !.refreshToken = refreshToken]

\* updateRefreshToken: load() || {}, refreshToken.
updateRefreshToken(doc, refreshToken) ==
  LET authState == IF doc.exists THEN doc ELSE [NoAuth EXCEPT !.exists = TRUE]
  IN  [authState EXCEPT !.refreshToken = refreshToken]

\* getAuthyValue: authState?.authyValues?.[key]
getAuthyValue(doc, key) ==
  IF Has(doc.authyValues, key) THEN doc.authyValues[key] ELSE JUndef

\* isTokenExpired: no access token, or an expiresAt that is truthy and not
\* after now.
isTokenExpired(doc, now) ==
  IF ~doc.exists \/ ~Truthy(doc.accessToken) THEN TRUE
  ELSE IF doc.expiresAt # 0 /\ now >= doc.expiresAt THEN TRUE
  ELSE FALSE

\* hasRefreshToken: Boolean(authState?.refreshToken)
hasRefreshToken(doc) == doc.exists /\ Truthy(doc.refreshToken)

(***************************************************************************)
(* Dependency resolver (dependency-resolver.ts).                           *)
(***************************************************************************)
\* A select's path: $.field, or $.field followed by a wildcard token.
NoPath == [field |-> "", sub |-> ""]
Path(field, sub) == [field |-> field, sub |-> sub]

Sel(name, path, type, expr, authy, select, upTo) ==
  [name |-> name, path |-> path, type |-> type, expr |-> expr,
   authy |-> authy, select |-> select, upTo |-> upTo]

\* path.replace(/\[:_\]/g, '[*]').replace(/\[_:\]/g, '[*]')
normalizedPath(path) ==
  [path EXCEPT !.sub = IF @ \in {"[:_]", "[_:]"} THEN "[*]" ELSE @]

\* JSONPath({path, json, wrap: true}): the member, or the elements of the
\* member for [*]; nothing when the member is absent or is not an array.
\* Objects below the top level are opaque.
JSONPath(path, json) ==
  IF ~Has(json, path.field) THEN <<>>
  ELSE IF path.sub = "" THEN <<json[path.field]>>
  ELSE IF path.sub = "[*]" /\ json[path.field].t = "l" THEN json[path.field].l
  ELSE <<>>

\* 'body' in data ? data.body : data.  A member named body is an opaque
\* object: no path leads into it.
jsonDataOf(data) == IF Has(data, "body") THEN EmptyMap ELSE data

\* The member names of the model's bodies, in one fixed order.
FieldOrder == <<"ids", "token", "n", "objs", "nothing", "next", "status",
                "body", "flag">>

\* JSON.stringify(result), cut at up-to when it is set: the text is not
\* spelled out, the value carries the members it was made from.
fullBodyOf(data, upTo) ==
  [t |-> "s", s |-> IF upTo # 0 THEN "<json prefix>" ELSE "<json>",
   n |-> upTo, b |-> FALSE,
   l |-> IF Has(data, "body") THEN <<data["body"]>>
         ELSE [i \in 1..Len(FieldOrder) |->
                 IF Has(data, FieldOrder[i]) THEN data[FieldOrder[i]]
                 ELSE JUndef]]

\* String(value) and Number(value) on the values of the model.
Numerals == (0 :> "0") @@ (1 :> "1") @@ (2 :> "2") @@ (7 :> "7")
              @@ (200 :> "200") @@ (404 :> "404")
toStringValue(v) ==
  CASE v.t = "s" -> v
    [] v.t = "n" -> MkS(IF v.n \in DOMAIN Numerals THEN Numerals[v.n]
                        ELSE "<number>")
    [] v.t = "b" -> MkS(IF v.b THEN "true" ELSE "false")
    [] v.t = "null" -> MkS("null")
    [] v.t = "undef" -> MkS("undefined")
    [] v.t = "nan" -> MkS("NaN")
    [] v.t = "o" -> MkS("[object Object]")
    [] OTHER -> MkS("<joined>")
toNumberValue(v) ==
  CASE v.t = "n" -> v
    [] v.t = "s" ->
         IF v.s = "" THEN MkN(0)
         ELSE IF \E n \in DOMAIN Numerals : Numerals[n] = v.s
           THEN MkN(CHOOSE n \in DOMAIN Numerals : Numerals[n] = v.s)
         ELSE JNaN
    [] v.t = "b" -> MkN(IF v.b THEN 1 ELSE 0)
    [] v.t = "null" -> MkN(0)
    [] OTHER -> JNaN

\* results.map(...).filter(...) of extractValues.
typedResultsOf(results, type) ==
  LET mapped == [i \in 1..Len(results) |->
                   IF type = "number" THEN toNumberValue(results[i])
                   ELSE toStringValue(results[i])]
      keep(v) == IF type = "number" THEN v.t # "nan"
                 ELSE v # MkS("null") /\ v # MkS("undefined") /\ v # MkS("")
  IN  SelectSeq(mapped, keep)

\* Array.prototype.flat(): arrays one level down are spliced in.
RECURSIVE flat(_)
flat(vs) ==
  IF vs = <<>> THEN <<>>
  ELSE (IF Head(vs).t = "l" THEN Head(vs).l ELSE <<Head(vs)>>) \o flat(Tail(vs))

Extraction(values, writes) == [values |-> values, writes |-> writes]
Write(key, value) == [key |-> key, value |-> value]

\* The nested selects so far: the temporary extractedData and the writes
\* made; a nested select that yielded values is bound under its name.
Nested(extractedData, writes) ==
  [extractedData |-> extractedData, writes |-> writes]
bindNested(acc, name, r) ==
  Nested(IF Len(r.values) > 0
           THEN OPut(acc.extractedData, name, MkL(r.values))
           ELSE acc.extractedData,
         acc.writes \o r.writes)

\* extractValues after the nested selects, given what they left (nested) and
\* what the path query found (results): expr, nested without expr,
\* full-body, status, path.
extractBranches(data, selectDef, context, nested, results) ==
  LET nestedContext == [context EXCEPT !.extractedData = nested.extractedData]
      result == evaluateExpression(selectDef.expr, nestedContext)
      typedResults == typedResultsOf(results, selectDef.type)
  IN  IF Len(selectDef.select) > 0 /\ selectDef.expr = NoExpr
        THEN Extraction(flat(OValues(nested.extractedData)), nested.writes)
      ELSE IF selectDef.expr # NoExpr
        THEN IF ~result.ok THEN Extraction(<<>>, nested.writes)
             ELSE Extraction(<<result.v>>,
                    nested.writes \o
                      (IF selectDef.authy
                         THEN <<Write(selectDef.name, result.v)>>
                         ELSE <<>>))
      ELSE IF selectDef.type = "full-body"
        THEN Extraction(<<fullBodyOf(data, selectDef.upTo)>>, <<>>)
      ELSE IF selectDef.type = "status"
        THEN Extraction(<<IF Has(data, "status") THEN data["status"]
                          ELSE MkN(200)>>, <<>>)
      ELSE IF selectDef.path = NoPath THEN Extraction(<<>>, <<>>)
      ELSE IF Len(results) = 0 THEN Extraction(<<>>, <<>>)
      ELSE IF selectDef.type = "number" /\ results[1].t \in {"o", "l", "null"}
        THEN Extraction(results, <<>>)
      ELSE Extraction(typedResults,
             IF selectDef.authy /\ Len(typedResults) > 0
               THEN <<Write(selectDef.name, typedResults[1])>>
               ELSE <<>>)

\* extractValues: the values yielded and the saveAuthyValue calls made, in
\* order.  Whatever throws inside is caught and yields nothing; the writes
\* already made stay.  The nested selects are extracted first, each against
\* the context the call was given.
RECURSIVE extractValues(_, _, _)
RECURSIVE extractNested(_, _, _, _, _)
extractNested(data, selects, i, context, acc) ==
  IF i > Len(selects) THEN acc
  ELSE extractNested(data, selects, i + 1, context,
         bindNested(acc, selects[i].name,
                    extractValues(data, selects[i], context)))
extractValues(data, selectDef, context) ==
  extractBranches(data, selectDef, context,
    extractNested(data, selectDef.select, 1, context,
                  Nested(context.extractedData, <<>>)),
    JSONPath(normalizedPath(selectDef.path), jsonDataOf(data)))

\* Array.from(new Set(allValues)): the first occurrence of each value, in
\* order.  Two objects of the same name are the same object.
RECURSIVE uniqueValues(_, _, _)
uniqueValues(vs, i, acc) ==
  IF i > Len(vs) THEN acc
  ELSE uniqueValues(vs, i + 1,
         IF \E j \in 1..Len(acc) : acc[j] = vs[i] THEN acc
         ELSE Append(acc, vs[i]))

\* dependency.from.includes(name) and its like.
Includes(names, name) == \E i \in 1..Len(names) : names[i] = name

\* The source responses of an edge: of each from request that has answered,
\* all its responses, or the latest one when latestOnly.
RECURSIVE sourceDataOf(_, _, _, _)
sourceDataOf(from, i, responseData, latestOnly) ==
  IF i > Len(from) THEN <<>>
  ELSE LET data == IF Has(responseData, from[i]) THEN responseData[from[i]]
                   ELSE <<>>
       IN  (IF Len(data) = 0 THEN <<>>
            ELSE IF latestOnly THEN <<data[Len(data)]>>
            ELSE data)
             \o sourceDataOf(from, i + 1, responseData, latestOnly)

\* allValues.push(...values), and the writes of the call after those before.
joinExtraction(acc, r) ==
  Extraction(acc.values \o r.values, acc.writes \o r.writes)

\* One select over all source responses: allValues and the writes made.
RECURSIVE extractAll(_, _, _, _, _)
extractAll(sourceData, j, selectDef, context, acc) ==
  IF j > Len(sourceData) THEN acc
  ELSE extractAll(sourceData, j + 1, selectDef, context,
         joinExtraction(acc,
                        extractValues(sourceData[j], selectDef, context)))

\* extractedValues.set(name, uniqueValues), and the writes made for it.
Extracted(entries, writes) == [entries |-> entries, writes |-> writes]
setExtracted(acc, name, r) ==
  Extracted(OPut(acc.entries, name, uniqueValues(r.values, 1, <<>>)),
            acc.writes \o r.writes)

\* The loop over dependency.select: extractedValues (a Map, name to unique
\* values) and the writes made, in order.
RECURSIVE extractSelects(_, _, _, _, _)
extractSelects(selects, i, sourceData, context, acc) ==
  IF i > Len(selects) THEN acc
  ELSE extractSelects(selects, i + 1, sourceData, context,
         setExtracted(acc, selects[i].name,
                      extractAll(sourceData, 1, selects[i], context,
                                 Extraction(<<>>, <<>>))))

\* tempContext.extractedData: the first value of every name that has one.
RECURSIVE withFirstValues(_, _, _)
withFirstValues(extractedData, entries, i) ==
  IF i > Len(entries) THEN extractedData
  ELSE withFirstValues(
         IF Len(entries[i].v) > 0
           THEN OPut(extractedData, entries[i].k, entries[i].v[1])
           ELSE extractedData,
         entries, i + 1)

RECURSIVE cartesianProduct(_, _)
\* cartesianProductFirstFastest: the product with the first array varying
\* fastest.
cartesianProductFirstFastest(arrays, n) ==
  IF n = 0 THEN << <<>> >>
  ELSE LET acc == cartesianProduct(arrays, n - 1)
           m == Len(arrays[n])
       IN  [k \in 1..(Len(acc) * m) |->
              Append(acc[((k - 1) % Len(acc)) + 1],
                     arrays[n][((k - 1) \div Len(acc)) + 1])]

\* cartesianProduct: the first array varies slowest.
cartesianProduct(arrays, n) ==
  IF n = 0 THEN << <<>> >>
  ELSE LET acc == cartesianProduct(arrays, n - 1)
           m == Len(arrays[n])
       IN  [k \in 1..(Len(acc) * m) |->
              Append(acc[((k - 1) \div m) + 1], arrays[n][((k - 1) % m) + 1])]

\* context.extractedData[paramName] = combination[index], for every entry.
RECURSIVE bindAll(_, _, _, _)
bindAll(extractedData, entries, combination, i) ==
  IF i > Len(entries) THEN extractedData
  ELSE bindAll(OPut(extractedData, entries[i].k, combination[i]), entries,
               combination, i + 1)

\* createContexts: one child per value, or per element of the product.
createContexts(entries, currentContext) ==
  IF Len(entries) = 0 THEN <<>>
  ELSE IF Len(entries) = 1
    THEN [i \in 1..Len(entries[1].v) |->
            [currentContext EXCEPT
               !.extractedData = OPut(@, entries[1].k, entries[1].v[i])]]
  ELSE LET cartesian ==
             cartesianProduct([i \in 1..Len(entries) |-> entries[i].v],
                              Len(entries))
       IN  [c \in 1..Len(cartesian) |->
              [currentContext EXCEPT
                 !.extractedData = bindAll(@, entries, cartesian[c], 1)]]

\* What applyDependency gives back: the child contexts (ok = FALSE when it
\* throws), the writes it made, and how selectwhere came out: "none" when
\* the edge has none or it was not reached, "truthy", "falsy", "throws".
Applied(ok, contexts, writes, gate) ==
  [ok |-> ok, contexts |-> contexts, writes |-> writes, gate |-> gate]

\* gateAndFanOutUngated: the fan-out whatever selectwhere says.
gateAndFanOutUngated(dependency, currentContext, sourceData, x) ==
  LET tempContext ==
        [currentContext EXCEPT
           !.extractedData = withFirstValues(@, x.entries, 1)]
      shouldApply == evaluateCondition(dependency.selectwhere, tempContext)
      contexts == createContexts(x.entries, currentContext)
  IN  IF Len(sourceData) = 0 THEN Applied(TRUE, <<>>, <<>>, "none")
      ELSE IF Len(x.entries) = 0 THEN Applied(TRUE, <<>>, x.writes, "none")
      ELSE IF dependency.selectwhere = NoExpr
        THEN Applied(TRUE, contexts, x.writes, "none")
      ELSE IF ~shouldApply.ok THEN Applied(TRUE, contexts, x.writes, "throws")
      ELSE IF ~shouldApply.v.b THEN Applied(TRUE, contexts, x.writes, "falsy")
      ELSE Applied(TRUE, contexts, x.writes, "truthy")

\* applyDependency after the extraction, given the source responses and
\* what the selects yielded (x): the selectwhere gate, in a context that
\* holds the first value of every name (not guarded: when it throws, the
\* call throws), then the fan-out.
gateAndFanOut(dependency, currentContext, sourceData, x) ==
  LET tempContext ==
        [currentContext EXCEPT
           !.extractedData = withFirstValues(@, x.entries, 1)]
      shouldApply == evaluateCondition(dependency.selectwhere, tempContext)
      contexts == createContexts(x.entries, currentContext)
  IN  IF Len(sourceData) = 0 THEN Applied(TRUE, <<>>, <<>>, "none")
      ELSE IF Len(x.entries) = 0 THEN Applied(TRUE, <<>>, x.writes, "none")
      ELSE IF dependency.selectwhere = NoExpr
        THEN Applied(TRUE, contexts, x.writes, "none")
      ELSE IF ~shouldApply.ok THEN Applied(FALSE, <<>>, x.writes, "throws")
      ELSE IF ~shouldApply.v.b THEN Applied(TRUE, <<>>, x.writes, "falsy")
      ELSE Applied(TRUE, contexts, x.writes, "truthy")

\* applyDependency: source responses, extraction with deduplication, gate
\* and fan-out.
applyDependency(dependency, responseData, currentContext, latestOnly) ==
  gateAndFanOut(dependency, currentContext,
    sourceDataOf(dependency.from, 1, responseData, latestOnly),
    extractSelects(dependency.select, 1,
      sourceDataOf(dependency.from, 1, responseData, latestOnly),
      currentContext, Extracted(<<>>, <<>>)))

\* A URL template: its text with the {{names}} it holds, in order; and the
\* URL made from it: each name replaced by a value, or left in place.
NoUrl == [base |-> "", vars |-> <<>>]
UrlTemplate(base, vars) == [base |-> base, vars |-> vars]
Defined(d, key) == OHas(d, key) /\ OGet(d, key).t # "undef"

\* interpolateUrl: extractedData only; what is not there stays as written.
interpolateUrl(template, context) ==
  [base |-> template.base,
   args |-> [i \in 1..Len(template.vars) |->
               IF Defined(context.extractedData, template.vars[i])
                 THEN [key |-> template.vars[i], resolved |-> TRUE,
                       v |-> toStringValue(OGet(context.extractedData,
                                                template.vars[i]))]
                 ELSE [key |-> template.vars[i], resolved |-> FALSE,
                       v |-> JUndef]]]

\* hasUnresolvedVariables: some {{name}} left in the URL is in none of
\* extractedData, credentials, systemVariables, and authState is undefined.
hasUnresolvedVariables(url, context) ==
  \E i \in 1..Len(url.args) :
    /\ ~url.args[i].resolved
    /\ ~Defined(context.extractedData, url.args[i].key)
    /\ ~Has(context.credentials, url.args[i].key)
    /\ ~context.authState.exists
    /\ ~Has(context.systemVariables, url.args[i].key)

(***************************************************************************)
(* extractValues on its own: any select of the model on any response.      *)
(***************************************************************************)
MaxResolverCalls == 1

NoSelect == Sel("", NoPath, "", NoExpr, FALSE, <<>>, 0)

ResolverPaths ==
  {NoPath, Path("ids", "[*]"), Path("ids", "[:_]"), Path("ids", "[_:]"),
   Path("token", ""), Path("n", ""), Path("objs", "[*]"),
   Path("nothing", ""), Path("missing", "")}
SelectTypes == {"", "string", "number", "status", "full-body"}
NestedLists ==
  {<<>>,
   <<Sel("items", Path("objs", "[*]"), "number", NoExpr, FALSE, <<>>, 0)>>,
   <<Sel("items", Path("token", ""), "", NoExpr, TRUE, <<>>, 0)>>}
SelectExprs ==
  {Lit(MkS("v")), Var("missing"), Var("items"),
   Call("count", <<Var("items")>>)}
ResolverSelects ==
  {Sel("x", p, ty, NoExpr, a, <<>>, 0) :
     p \in ResolverPaths, ty \in SelectTypes, a \in BOOLEAN}
  \cup {Sel("x", NoPath, "full-body", NoExpr, a, <<>>, 8) : a \in BOOLEAN}
  \cup {Sel("x", NoPath, "", e, a, ns, 0) :
          e \in SelectExprs \cup {NoExpr}, a \in BOOLEAN, ns \in NestedLists}

ResolverBodies ==
  {EmptyMap,
   ("ids" :> MkL(<<MkS("a"), MkS("b"), MkS("a")>>)) @@ ("token" :> MkS("t1"))
     @@ ("n" :> MkS("7")) @@ ("nothing" :> JNull)
     @@ ("objs" :> MkL(<<MkO("o1"), MkO("o2")>>)),
   ("status" :> MkN(404)) @@ ("token" :> MkS("")) @@ ("n" :> MkS("x"))
     @@ ("ids" :> MkL(<<>>)),
   ("body" :> MkO("inner")) @@ ("token" :> MkS("t2"))}

ResolverContext(extractedData) ==
  [credentials |-> EmptyMap, authState |-> NoAuth,
   systemVariables |-> EmptyMap, extractedData |-> extractedData]
ResolverContexts ==
  {ResolverContext(<<>>),
   ResolverContext(<<[k |-> "prev", v |-> MkS("p")]>>)}

\* One call of extractValues; its authy writes reach the token file.
ResolverExtractValues ==
  /\ UNCHANGED notResolver
  /\ rv_calls < MaxResolverCalls
  /\ \E data \in ResolverBodies, selectDef \in ResolverSelects,
        context \in ResolverContexts :
       LET r == extractValues(data, selectDef, context)
       IN  /\ rv_select' = selectDef
           /\ rv_data' = data
           /\ rv_context' = context
           /\ rv_values' = r.values
           /\ rv_writes' = r.writes
           /\ ts_doc' = saveAll(ts_doc, r.writes)
  /\ rv_calls' = rv_calls + 1

StoreInit == ts_doc = NoAuth

ResolverInit ==
  /\ rv_calls = 0
  /\ rv_select = NoSelect
  /\ rv_data = EmptyMap
  /\ rv_context = ResolverContext(<<>>)
  /\ rv_values = <<>>
  /\ rv_writes = <<>>

ResolverNext == ResolverExtractValues

(***************************************************************************)
(* Executor (executor.ts): the manifest, and what execute() works with.    *)
(***************************************************************************)
MaxRuns == 2
\* The retries of one client.get the model follows while it is pending.
MaxInFlightRetries == 1

OAuth2Function == "interactiveOAuth2Authorization"

\* A request of the manifest: headers holds the {{names}} its header values
\* use; authorizeUrl is args.authorizeUrl.
Req(name, url, function, authorizeUrl, headers) ==
  [name |-> name, url |-> url, function |-> function,
   authorizeUrl |-> authorizeUrl, headers |-> headers]
NoReq == Req("", NoUrl, "", NoUrl, <<>>)

Dep(from, to, select, selectwhere, loadtype) ==
  [from |-> from, to |-> to, select |-> select, selectwhere |-> selectwhere,
   loadtype |-> loadtype]

PathSel(name, path, authy) == Sel(name, path, "", NoExpr, authy, <<>>, 0)

\* The request names of the model that include "_paged".
PagedNames == {"list_paged"}

\* A paginated list whose items and details are fetched when the list says
\* so.
ManifestPlain ==
  [id |-> "plain",
   reqs |-> <<Req("list", UrlTemplate("api/list", <<>>), "", NoUrl, <<>>),
              Req("list_paged", UrlTemplate("api/list", <<"cursor">>), "",
                  NoUrl, <<>>),
              Req("item", UrlTemplate("api/item", <<"id">>), "", NoUrl,
                  <<>>),
              Req("detail", UrlTemplate("api/detail", <<"id">>), "", NoUrl,
                  <<>>)>>,
   deps |-> <<Dep(<<"list", "list_paged">>, <<"list_paged">>,
                  <<PathSel("cursor", Path("cursor", ""), TRUE)>>, NoExpr, ""),
              Dep(<<"list">>, <<"item", "detail">>,
                  <<PathSel("id", Path("ids", "[*]"), FALSE),
                    PathSel("flag", Path("flag", ""), FALSE)>>,
                  Bin("==", Var("flag"), Lit(MkS("yes"))), "")>>]

\* Interactive authorization, a token exchange, and an API request that
\* uses the token.
ManifestOAuth ==
  [id |-> "oauth",
   reqs |-> <<Req("auth", NoUrl, OAuth2Function,
                  UrlTemplate("https://idp/authorize",
                              <<"wsk_to_rsk_client_id", "precog_state">>),
                  <<>>),
              Req("token", UrlTemplate("oauth/token", <<"code">>), "", NoUrl,
                  <<>>),
              Req("api", UrlTemplate("api/me", <<>>), "", NoUrl, <<>>)>>,
   deps |-> <<Dep(<<"auth">>, <<"token">>,
                  <<PathSel("code", Path("query.code", ""), FALSE)>>,
                  NoExpr, ""),
              Dep(<<"token">>, <<"api">>,
                  <<PathSel("access_token", Path("access_token", ""), TRUE)>>,
                  NoExpr, "")>>]

\* A request named env and no authorization request.
ManifestEnv ==
  [id |-> "env",
   reqs |-> <<Req("env", NoUrl, "", NoUrl, <<>>),
              Req("api", UrlTemplate("api/me", <<>>), "", NoUrl, <<>>)>>,
   deps |-> <<>>]

\* A root whose ids fan out into leaves, every leaf answering with a name
\* that is kept as an authy value and leads to a tip.
ManifestTree ==
  [id |-> "tree",
   reqs |-> <<Req("root", UrlTemplate("api/root", <<>>), "", NoUrl, <<>>),
              Req("leaf", UrlTemplate("api/leaf", <<"id">>), "", NoUrl, <<>>),
              Req("tip", UrlTemplate("api/tip", <<"name">>), "", NoUrl,
                  <<>>)>>,
   deps |-> <<Dep(<<"root">>, <<"leaf">>,
                  <<PathSel("id", Path("ids", "[*]"), FALSE)>>, NoExpr, ""),
              Dep(<<"leaf">>, <<"tip">>,
                  <<PathSel("name", Path("name", ""), TRUE)>>, NoExpr, "")>>]

\* Interactive authorization whose edges are all of loadtype delta: the
\* token exchange, the token kept out of its answer, and the feed of the API
\* request.
ManifestDelta ==
  [id |-> "delta",
   reqs |-> <<Req("auth", NoUrl, OAuth2Function,
                  UrlTemplate("https://idp/authorize",
                              <<"wsk_to_rsk_client_id", "precog_state">>),
                  <<>>),
              Req("token", UrlTemplate("oauth/token", <<"code">>), "", NoUrl,
                  <<>>),
              Req("api", UrlTemplate("api/me", <<>>), "", NoUrl, <<>>),
              Req("feed", UrlTemplate("api/feed", <<"name">>), "", NoUrl,
                  <<>>)>>,
   deps |-> <<Dep(<<"auth">>, <<"token">>,
                  <<PathSel("code", Path("query.code", ""), FALSE)>>,
                  NoExpr, "delta"),
              Dep(<<"token">>, <<"api">>,
                  <<PathSel("access_token", Path("access_token", ""), TRUE)>>,
                  NoExpr, "delta"),
              Dep(<<"api">>, <<"feed">>,
                  <<PathSel("name", Path("name", ""), FALSE)>>,
                  NoExpr, "delta")>>]

\* Interactive authorization and a token exchange, and an API request whose
\* edge leads back to the token exchange and on to a feed whose URL names a
\* variable that the edge does not select.
ManifestLoose ==
  [id |-> "loose",
   reqs |-> <<Req("auth", NoUrl, OAuth2Function,
                  UrlTemplate("https://idp/authorize",
                              <<"wsk_to_rsk_client_id", "precog_state">>),
                  <<>>),
              Req("token", UrlTemplate("oauth/token", <<"code">>), "", NoUrl,
                  <<>>),
              Req("api", UrlTemplate("api/me", <<>>), "", NoUrl, <<>>),
              Req("feed", UrlTemplate("api/feed", <<"id">>), "", NoUrl,
                  <<>>)>>,
   deps |-> <<Dep(<<"auth">>, <<"token">>,
                  <<PathSel("code", Path("query.code", ""), FALSE)>>,
                  NoExpr, ""),
              Dep(<<"api">>, <<"token", "feed">>,
                  <<PathSel("code", Path("name", ""), FALSE)>>,
                  NoExpr, "")>>]

\* A paginated list with two edges that lead back to the page request: the
\* cursor of a page, and the page its next names.
ManifestTwice ==
  [id |-> "twice",
   reqs |-> <<Req("list", UrlTemplate("api/list", <<>>), "", NoUrl, <<>>),
              Req("list_paged", UrlTemplate("api/list", <<"cursor">>), "",
                  NoUrl, <<>>)>>,
   deps |-> <<Dep(<<"list", "list_paged">>, <<"list_paged">>,
                  <<PathSel("cursor", Path("cursor", ""), FALSE)>>, NoExpr,
                  ""),
              Dep(<<"list_paged">>, <<"list_paged">>,
                  <<PathSel("cursor", Path("next", ""), FALSE)>>, NoExpr,
                  "")>>]

NoManifest == [id |-> "", reqs |-> <<>>, deps |-> <<>>]
Manifests ==
  {ManifestPlain, ManifestOAuth, ManifestEnv, ManifestTree, ManifestDelta,
   ManifestLoose, ManifestTwice}

\* What client.get can come back with for a request: the bodies below, or
\* it throws.
ListBodies ==
  {[x \in {"ids", "cursor"} \cup fl \cup nx |->
      CASE x = "ids" -> MkL(<<MkS("a"), MkS("b")>>)
        [] x = "cursor" -> MkS("c2")
        [] x = "flag" -> f
        [] OTHER -> n] :
     fl \in {{}, {"flag"}}, nx \in {{}, {"next"}},
     f \in {MkS("yes"), MkS("no")}, n \in {JNull, MkS(""), MkS("p2")}}
PageBodies ==
  {("next" :> n) @@ ("cursor" :> c) :
     n \in {JNull, MkS("p3")}, c \in {MkS("c2"), MkS("c3")}}
ServerBodies(name) ==
  CASE name = "list" -> ListBodies
    [] name = "list_paged" -> PageBodies
    [] name = "token" -> {"access_token" :> MkS("t1"), EmptyMap}
    [] name = "root" -> {"ids" :> MkL(<<MkS("a"), MkS("b")>>)}
    [] OTHER -> {"name" :> MkS("x")}

\* The body of the synthetic response of authorize: { query: { code, state } }
\* (the members of query are written as members named query.code and
\* query.state).
AuthorizeBody == ("query.code" :> MkS("c1")) @@ ("query.state" :> MkS("s1"))

ExecCredentials == ("Client Id" :> MkS("cid")) @@ ("API Key" :> MkS("k"))
RedirectUri == MkS("http://localhost:3000/callback")

\* rsk.config.reqs.find: the first request that matches, or none.
findRequest(m, name) ==
  LET P(i) == m.reqs[i].name = name
  IN  IF \E i \in 1..Len(m.reqs) : P(i)
        THEN m.reqs[CHOOSE i \in 1..Len(m.reqs) :
                      P(i) /\ \A j \in 1..(i - 1) : ~P(j)]
        ELSE NoReq
authRequestOf(m) ==
  LET P(i) == m.reqs[i].function = OAuth2Function
  IN  IF \E i \in 1..Len(m.reqs) : P(i)
        THEN m.reqs[CHOOSE i \in 1..Len(m.reqs) :
                      P(i) /\ \A j \in 1..(i - 1) : ~P(j)]
        ELSE NoReq

\* The indices of the manifest's edges, in manifest order.
depIndices(m) == [i \in 1..Len(m.deps) |-> i]

\* getOAuth2RequestNamesAuthOnly: the authorization request alone.
getOAuth2RequestNamesAuthOnly(m) ==
  IF authRequestOf(m) = NoReq THEN {} ELSE {authRequestOf(m).name}

getOAuth2RequestNames(m) ==
  LET authRequest == authRequestOf(m)
  IN  IF authRequest = NoReq THEN {}
      ELSE {authRequest.name}
             \cup UNION {{m.deps[i].to[k] : k \in 1..Len(m.deps[i].to)} :
                          i \in {d \in 1..Len(m.deps) :
                                   Includes(m.deps[d].from, authRequest.name)}}

\* findEntryRequests: a URL, no {{ in the URL or in a header, not env, not
\* one of the OAuth2 requests; in manifest order.
findEntryRequests(m) ==
  LET entry(req) == /\ req.url # NoUrl
                    /\ req.url.vars = <<>>
                    /\ req.headers = <<>>
                    /\ req.name # "env"
                    /\ req.name \notin getOAuth2RequestNames(m)
      found == SelectSeq(m.reqs, entry)
  IN  [i \in 1..Len(found) |-> found[i].name]

requiresOAuth2(m) ==
  \E i \in 1..Len(m.reqs) :
    m.reqs[i].function = OAuth2Function \/ m.reqs[i].name = "env"

createInitialContext(authState) ==
  [credentials |-> ExecCredentials, authState |-> authState,
   systemVariables |-> ("precog_root_uri" :> RedirectUri)
                         @@ ("precog_redirect_uri" :> RedirectUri)
                         @@ ("wsk_to_rsk_redirect_uri" :> RedirectUri),
   extractedData |-> <<>>]

isPaginationDependency(dep) ==
  \E i \in 1..Len(dep.to) :
    dep.to[i] \in PagedNames /\ Includes(dep.from, dep.to[i])

\* The edges processDependencies walks for a request, those processEnvNode
\* walks for the authorization request, and its tokenDeps for a target.
dependenciesOf(m, requestName) ==
  SelectSeq(depIndices(m),
    LAMBDA i : /\ Includes(m.deps[i].from, requestName)
               /\ m.deps[i].loadtype # "delta")
authDepsOf(m) ==
  SelectSeq(depIndices(m),
    LAMBDA i : Includes(m.deps[i].from, authRequestOf(m).name))
tokenDepsOf(m, toRequest) ==
  SelectSeq(depIndices(m),
    LAMBDA i :
      /\ Includes(m.deps[i].from, toRequest)
      /\ ~\E k \in 1..Len(m.deps[i].to) :
            m.deps[i].to[k] \in getOAuth2RequestNames(m))

\* loadKeepingDocument: a start that loads the document whatever forceReauth.
loadKeepingDocument(forceReauth, doc) ==
  [authState |-> doc, doc |-> doc, event |-> "load"]

\* The start of execute: load the document, or clear it when forceReauth.
loadOrClear(forceReauth, doc) ==
  IF ~forceReauth THEN [authState |-> doc, doc |-> doc, event |-> "load"]
  ELSE [authState |-> NoAuth, doc |-> NoAuth, event |-> "clear"]

\* The run that created the document (history, not part of the file): a
\* document saved where there was none is of the current run.
stampOrigin(old, new, run) ==
  IF ~old.exists /\ new.exists THEN [new EXCEPT !.origin = run] ELSE new

\* interpolateString: every {{name}} resolves, or it throws.
interpolates(template, context) ==
  \A i \in 1..Len(template.vars) : resolveVariable(template.vars[i], context).ok

\* What is left to do, first thing first: the calls in progress and what
\* follows them.  op is "env", "authdep", "request", "await", "tokendeps",
\* "deps", "reload" or "entries".
Task(op, name, ctx, data, i, via, sub, fresh) ==
  [op |-> op, name |-> name, ctx |-> ctx, data |-> data, i |-> i,
   via |-> via, sub |-> sub, fresh |-> fresh]
Step(op, i) == Task(op, "", ResolverContext(<<>>), EmptyMap, i, 0, FALSE, FALSE)

\* What the run did, in order: "start", "load", "clear", "browser",
\* "listen" (authorize settled: why is "" when it resolved, else the message
\* it rejected with), "http" (client.get called; failed when it threw),
\* "edge" (an edge met after a response: skipped as finished pagination, or
\* resolved), "datasets" (saveDatasets).  via is what an event hangs off: the
\* edge event a request was issued through (0 for an entry request), the
\* request an edge was met after; pos is the turn of the loop that issued a
\* request: over the entry requests, or over the contexts and targets; auth
\* is the authState of the context of a request and doc the token document
\* at that moment.
Ev(op) ==
  [op |-> op, name |-> "", url |-> interpolateUrl(NoUrl, ResolverContext(<<>>)),
   auth |-> NoAuth, via |-> 0, sub |-> FALSE, dep |-> 0, skipped |-> FALSE,
   gate |-> "", children |-> 0, next |-> JUndef, doc |-> NoAuth,
   force |-> FALSE, prevDone |-> FALSE, why |-> "", failed |-> FALSE,
   pos |-> 0]
httpEv(name, url, auth, via, sub, failed, pos) ==
  [Ev("http") EXCEPT !.name = name, !.url = url, !.auth = auth, !.via = via,
                     !.sub = sub, !.failed = failed, !.pos = pos,
                     !.doc = ts_doc]
listenEv(why) == [Ev("listen") EXCEPT !.why = why]
edgeEv(name, dep, skipped, gate, children, next, via) ==
  [Ev("edge") EXCEPT !.name = name, !.dep = dep, !.skipped = skipped,
                     !.gate = gate, !.children = children, !.next = next,
                     !.via = via]

Stats(total, successful, failed) ==
  [totalRequests |-> total, successfulRequests |-> successful,
   failedRequests |-> failed]

\* The calls processRequest(to, context) for every context and every target,
\* contexts outermost; in the sub-flow each is followed by its tokenDeps.
requestTasksTargetsOutermost(contexts, to, via, sub) ==
  [e \in 1..(Len(contexts) * Len(to)) |->
     Task("request", to[((e - 1) \div Len(contexts)) + 1],
          contexts[((e - 1) % Len(contexts)) + 1], EmptyMap, e, via, sub,
          FALSE)]
requestTasks(contexts, to, via, sub) ==
  [e \in 1..(Len(contexts) * Len(to)) |->
     Task("request", to[((e - 1) % Len(to)) + 1],
          contexts[((e - 1) \div Len(to)) + 1], EmptyMap, e, via, sub, FALSE)]
subFlowTasks(contexts, to, via) ==
  [e \in 1..(Len(contexts) * Len(to) * 2) |->
     LET c == contexts[((e - 1) \div (2 * Len(to))) + 1]
         t == to[(((e - 1) % (2 * Len(to))) \div 2) + 1]
     IN  IF (e - 1) % 2 = 0
           THEN Task("request", t, c, EmptyMap, (e + 1) \div 2, via, TRUE,
                     TRUE)
           ELSE Task("tokendeps", t, c, EmptyMap, 1, 0, TRUE, FALSE)]

(***************************************************************************)
(* Executor: a run is one invocation of the command line, a new executor   *)
(* and one call of execute().  The steps of the run are sequential.        *)
(***************************************************************************)
task == Head(ex_tasks)
rest == Tail(ex_tasks)
running == ex_pc = "running" /\ ex_tasks # <<>>

\* subFlowSwallowed: the catch of processEnvNode without the rethrow, the
\* run going on with the entry requests.
subFlowSwallowed(log) ==
  /\ ex_pc' = ex_pc
  /\ ex_tasks' = <<Step("entries", 1)>>
  /\ ex_stats' = [ex_stats EXCEPT !.failedRequests = @ + 1]
  /\ ex_errors' = Append(ex_errors, authRequestOf(ex_manifest).name)
  /\ ex_log' = log

\* The run ends with the error thrown out of processEnvNode: its catch counts
\* the failure, records the error and rethrows, and execute() rejects.
subFlowFails(log) ==
  /\ ex_pc' = "failed"
  /\ ex_tasks' = <<>>
  /\ ex_stats' = [ex_stats EXCEPT !.failedRequests = @ + 1]
  /\ ex_errors' = Append(ex_errors, authRequestOf(ex_manifest).name)
  /\ ex_log' = log

\* execute(), up to the sub-flow or the first entry request.
ExecuteStart ==
  /\ UNCHANGED notExec
  /\ ex_pc \in {"idle", "done", "failed"}
  /\ ex_run < MaxRuns
  /\ \E m \in (IF ex_run = 0 THEN Manifests ELSE {ex_manifest}),
        forceReauth \in BOOLEAN :
       LET s == loadOrClear(forceReauth, ts_doc)
       IN  /\ ex_manifest' = m
           /\ ex_force' = forceReauth
           /\ ts_doc' = s.doc
           /\ ex_authState' = s.authState
           /\ ex_log' = <<[Ev("start") EXCEPT !.doc = ts_doc,
                                              !.force = forceReauth,
                                              !.prevDone = (ex_pc = "done"
                                                             /\ ex_errors = <<>>)],
                          [Ev(s.event) EXCEPT !.doc = s.doc]>>
           /\ ex_tasks' = IF requiresOAuth2(m)
                            THEN <<Step("env", 0), Step("reload", 0),
                                   Step("entries", 1)>>
                            ELSE <<Step("entries", 1)>>
  /\ ex_run' = ex_run + 1
  /\ ex_pc' = "running"
  /\ ex_visited' = {}
  /\ ex_subVisited' = {}
  /\ ex_inflight' = {}
  /\ ex_responses' = EmptyMap
  /\ ex_stats' = Stats(0, 0, 0)
  /\ ex_errors' = <<>>

\* The CSRF state the run generates (crypto.randomBytes).
PrecogState == "s1"

envContextOf(authState) ==
  [createInitialContext(authState) EXCEPT
     !.systemVariables = Put(@, "precog_state", MkS(PrecogState))]

\* How authorize(authorizeUrl, precogState) settles: the first request to
\* /callback decides, or the timer does.  "" when it resolves, else the
\* message of the rejection.
AuthorizeOutcomes ==
  {"Authorization timeout", "listen failed"}
    \cup {LET v == callbackVerdict(code, state, error, PrecogState)
          IN  IF v.resolve THEN "" ELSE v.message :
            code \in CodeParams, state \in StateParams, error \in ErrorParams}

\* processEnvNode with no authorization request or no authorizeUrl: returns.
EnvNothingToDo ==
  /\ UNCHANGED <<notExec, ex_inflight>>
  /\ running /\ task.op = "env"
  /\ LET authRequest == authRequestOf(ex_manifest)
     IN  authRequest = NoReq \/ authRequest.authorizeUrl = NoUrl
  /\ ex_tasks' = rest
  /\ UNCHANGED <<ex_pc, ex_run, ex_manifest, ex_force, ex_authState,
                 ex_visited, ex_subVisited, ex_responses, ex_stats, ex_errors,
                 ex_log, ts_doc>>

\* processEnvNode: the authorize URL does not interpolate, the browser does
\* not open, or authorize rejects (state mismatch, error, timeout).
EnvAuthorizeFails ==
  /\ UNCHANGED <<notExec, ex_inflight>>
  /\ running /\ task.op = "env"
  /\ LET authRequest == authRequestOf(ex_manifest)
         envContext == envContextOf(ex_authState)
     IN  /\ authRequest # NoReq /\ authRequest.authorizeUrl # NoUrl
         /\ IF ~interpolates(authRequest.authorizeUrl, envContext)
              THEN subFlowFails(ex_log)
              ELSE \E failure \in {"browser"} \cup (AuthorizeOutcomes \ {""}) :
                     subFlowFails(
                       IF failure = "browser"
                         THEN Append(ex_log, Ev("browser"))
                         ELSE ex_log \o <<Ev("browser"), listenEv(failure)>>)
  /\ UNCHANGED <<ex_run, ex_manifest, ex_force, ex_authState, ex_visited,
                 ex_subVisited, ex_responses, ts_doc>>

\* processEnvNode: the browser is opened, then authorize listens and
\* resolves; the response is stored under "env" and the request's name.
EnvAuthorized ==
  /\ UNCHANGED <<notExec, ex_inflight>>
  /\ running /\ task.op = "env"
  /\ LET authRequest == authRequestOf(ex_manifest)
         envContext == envContextOf(ex_authState)
     IN  /\ authRequest # NoReq /\ authRequest.authorizeUrl # NoUrl
         /\ interpolates(authRequest.authorizeUrl, envContext)
         /\ ex_responses' = Put(Put(ex_responses, "env", <<AuthorizeBody>>),
                                authRequest.name, <<AuthorizeBody>>)
         /\ ex_tasks' = <<Task("authdep", authRequest.name, envContext,
                               EmptyMap, 1, 0, TRUE, FALSE),
                          Step("reload", 0)>> \o rest
  /\ "" \in AuthorizeOutcomes
  /\ ex_log' = ex_log \o <<Ev("browser"), listenEv("")>>
  /\ ex_stats' = [ex_stats EXCEPT !.successfulRequests = @ + 1]
  /\ UNCHANGED <<ex_pc, ex_run, ex_manifest, ex_force, ex_authState,
                 ex_visited, ex_subVisited, ex_errors, ts_doc>>

ProcessEnvNode == EnvNothingToDo \/ EnvAuthorizeFails \/ EnvAuthorized

\* The token file after the writes of an edge's selects.
docAfter(r) == stampOrigin(ts_doc, saveAll(ts_doc, r.writes), ex_run)

\* processEnvNode, one turn of the loop over authDeps, given what
\* applyDependency came back with: line up the edge's targets, each followed
\* by its tokenDeps; when it threw, the run ends.
authDepResolved(d, r) ==
  LET log == Append(ex_log, edgeEv(task.name, d, FALSE, r.gate,
                                   Len(r.contexts), JUndef, 0))
  IN  /\ ts_doc' = docAfter(r)
      /\ IF ~r.ok THEN subFlowFails(log)
         ELSE /\ ex_tasks' =
                   subFlowTasks(r.contexts, ex_manifest.deps[d].to, Len(log))
                     \o <<[task EXCEPT !.i = @ + 1]>> \o rest
              /\ ex_log' = log
              /\ UNCHANGED <<ex_pc, ex_stats, ex_errors>>

ResolveAuthDep ==
  /\ UNCHANGED <<notExec, ex_inflight>>
  /\ running /\ task.op = "authdep"
  /\ LET authDeps == authDepsOf(ex_manifest)
     IN  IF task.i > Len(authDeps)
           THEN /\ ex_tasks' = rest
                /\ UNCHANGED <<ex_pc, ex_stats, ex_errors, ex_log, ts_doc>>
           ELSE authDepResolved(authDeps[task.i],
                  applyDependency(ex_manifest.deps[authDeps[task.i]],
                                  ex_responses, task.ctx, FALSE))
  /\ UNCHANGED <<ex_run, ex_manifest, ex_force, ex_authState, ex_visited,
                 ex_subVisited, ex_responses>>

\* processEnvNode, one turn of the loop over tokenDeps, given what
\* applyDependency came back with: the edge is resolved for its selects, its
\* targets are not executed here.
tokenDepResolved(r) ==
  /\ ts_doc' = docAfter(r)
  /\ IF ~r.ok THEN subFlowFails(ex_log)
     ELSE /\ ex_tasks' = <<[task EXCEPT !.i = @ + 1]>> \o rest
          /\ UNCHANGED <<ex_pc, ex_stats, ex_errors, ex_log>>

ResolveTokenDep ==
  /\ UNCHANGED <<notExec, ex_inflight>>
  /\ running /\ task.op = "tokendeps"
  /\ LET tokenDeps == tokenDepsOf(ex_manifest, task.name)
     IN  IF task.i > Len(tokenDeps)
           THEN /\ ex_tasks' = rest
                /\ UNCHANGED <<ex_pc, ex_stats, ex_errors, ex_log, ts_doc>>
           ELSE tokenDepResolved(
                  applyDependency(ex_manifest.deps[tokenDeps[task.i]],
                                  ex_responses, task.ctx, FALSE))
  /\ UNCHANGED <<ex_run, ex_manifest, ex_force, ex_authState, ex_visited,
                 ex_subVisited, ex_responses>>

\* processRequest up to the HTTP call: the request, its URL, its urlKey and
\* the visited set it was handed (a new one at the call from processEnvNode).
requestDefOf(t) == findRequest(ex_manifest, t.name)
urlOf(t) == interpolateUrl(requestDefOf(t).url, t.ctx)
urlKeyOf(t) == <<t.name, urlOf(t)>>
\* visitedUrlsForgotten: every call of processRequest starting from a new set.
visitedUrlsForgotten(t) == {}

visitedUrlsOf(t) ==
  IF ~t.sub THEN ex_visited ELSE IF t.fresh THEN {} ELSE ex_subVisited
skips(t) ==
  \/ requestDefOf(t) = NoReq
  \/ requestDefOf(t).function = OAuth2Function
  \/ requestDefOf(t).url # NoUrl /\ hasUnresolvedVariables(urlOf(t), t.ctx)
  \/ urlKeyOf(t) \in visitedUrlsOf(t)

\* processRequest returns early: unknown or function request, unresolved
\* variables, or a urlKey already visited.
RequestSkipped ==
  /\ UNCHANGED <<notExec, ex_inflight>>
  /\ running /\ task.op = "request"
  /\ skips(task)
  /\ ex_tasks' = rest
  /\ ex_subVisited' = IF task.sub THEN visitedUrlsOf(task) ELSE ex_subVisited
  /\ UNCHANGED <<ex_pc, ex_run, ex_manifest, ex_force, ex_authState,
                 ex_visited, ex_responses, ex_stats, ex_errors, ex_log,
                 ts_doc>>

\* notAwaited: client.get called without await, the caller going on at once.
notAwaited(name, ctx, via, sub) == <<>>

\* await this.client.get(...): the caller goes on when the call has settled.
awaited(name, ctx, via, sub) ==
  <<Task("await", name, ctx, EmptyMap, 0, via, sub, FALSE)>>

\* processRequest marks the urlKey, counts the request and calls client.get.
RequestIssued ==
  /\ UNCHANGED notExec
  /\ running /\ task.op = "request"
  /\ ~skips(task)
  /\ ex_visited' = IF task.sub THEN ex_visited
                   ELSE ex_visited \cup {urlKeyOf(task)}
  /\ ex_subVisited' = IF task.sub THEN visitedUrlsOf(task) \cup {urlKeyOf(task)}
                      ELSE ex_subVisited
  /\ ex_stats' = [ex_stats EXCEPT !.totalRequests = @ + 1]
  /\ ex_log' = Append(ex_log, httpEv(task.name, urlOf(task),
                         task.ctx.authState, task.via, task.sub, FALSE,
                         task.i))
  /\ ex_inflight' = ex_inflight \cup {Len(ex_log) + 1}
  /\ ex_tasks' = awaited(task.name, task.ctx, Len(ex_log) + 1, task.sub)
                   \o rest
  /\ UNCHANGED <<ex_pc, ex_run, ex_manifest, ex_force, ex_authState,
                 ex_responses, ex_errors, ts_doc>>

\* client.get, still pending: an attempt was answered with a response to
\* retry, the client sleeps and fetches again.
RequestRetried ==
  /\ UNCHANGED notExec
  /\ running /\ task.op = "await"
  /\ task.i < MaxInFlightRetries
  /\ ex_tasks' = <<[task EXCEPT !.i = @ + 1]>> \o rest
  /\ UNCHANGED <<ex_pc, ex_run, ex_manifest, ex_force, ex_authState,
                 ex_visited, ex_subVisited, ex_responses, ex_stats, ex_errors,
                 ex_log, ex_inflight, ts_doc>>

\* The catch of processRequest, after failedRequests++: errors.push of the
\* request's name, URL and message.
errorsPushSkipped(errors, requestName) == errors
errorsPush(errors, requestName) == Append(errors, requestName)

\* requestFailedTraversing: a catch that goes on to processDependencies
\* with an empty response.
requestFailedTraversing ==
  /\ ex_stats' = [ex_stats EXCEPT !.failedRequests = @ + 1]
  /\ ex_errors' = errorsPush(ex_errors, task.name)
  /\ ex_tasks' = <<Task("deps", task.name, task.ctx, EmptyMap, 1,
                        task.via, task.sub, FALSE)>> \o rest
  /\ ex_log' = [ex_log EXCEPT ![task.via].failed = TRUE]
  /\ UNCHANGED ex_responses

\* processRequest when client.get throws: the catch counts the failure and
\* records the error; nothing is stored and processDependencies is not
\* reached.
requestFailed ==
  /\ ex_stats' = [ex_stats EXCEPT !.failedRequests = @ + 1]
  /\ ex_errors' = errorsPush(ex_errors, task.name)
  /\ ex_tasks' = rest
  /\ ex_log' = [ex_log EXCEPT ![task.via].failed = TRUE]
  /\ UNCHANGED ex_responses

\* responseData.get(requestName).push(data), the list made when there is
\* none.
pushedInPlaceOfHistory(responseData, requestName, data) ==
  Put(responseData, requestName, <<data>>)
pushed(responseData, requestName, data) ==
  Put(responseData, requestName,
      Append(IF Has(responseData, requestName)
               THEN responseData[requestName] ELSE <<>>, data))

\* client.get settles: it throws (counted, recorded, no traversal below), or
\* answers (counted, stored, then processDependencies).
RequestSettled ==
  /\ UNCHANGED notExec
  /\ running /\ task.op = "await"
  /\ ex_inflight' = ex_inflight \ {task.via}
  /\ \E thrown \in BOOLEAN, data \in ServerBodies(task.name) :
       IF thrown THEN requestFailed
       ELSE /\ ex_stats' = [ex_stats EXCEPT !.successfulRequests = @ + 1]
            /\ ex_responses' = pushed(ex_responses, task.name, data)
            /\ ex_tasks' = <<Task("deps", task.name, task.ctx, data, 1,
                                  task.via, task.sub, FALSE)>> \o rest
            /\ UNCHANGED <<ex_errors, ex_log>>
  /\ UNCHANGED <<ex_pc, ex_run, ex_manifest, ex_force, ex_authState,
                 ex_visited, ex_subVisited, ts_doc>>

ProcessRequest ==
  RequestSkipped \/ RequestIssued \/ RequestRetried \/ RequestSettled

nextOf(data) == IF Has(data, "next") THEN data["next"] ELSE JUndef

\* processDependencies: no edge left, or a pagination edge when the response
\* has next null or undefined.
DependencySkipped ==
  /\ UNCHANGED <<notExec, ex_inflight>>
  /\ running /\ task.op = "deps"
  /\ LET dependencies == dependenciesOf(ex_manifest, task.name)
     IN  IF task.i > Len(dependencies)
           THEN /\ ex_tasks' = rest
                /\ UNCHANGED ex_log
           ELSE LET dep == ex_manifest.deps[dependencies[task.i]]
                IN  /\ isPaginationDependency(dep)
                    /\ nextOf(task.data).t \in {"null", "undef"}
                    /\ ex_tasks' = <<[task EXCEPT !.i = @ + 1]>> \o rest
                    /\ ex_log' = Append(ex_log,
                         edgeEv(task.name, dependencies[task.i], TRUE, "", 0,
                                nextOf(task.data), task.via))
  /\ UNCHANGED <<ex_pc, ex_run, ex_manifest, ex_force, ex_authState,
                 ex_visited, ex_subVisited, ex_responses, ex_stats, ex_errors,
                 ts_doc>>

\* processDependencies, one edge, given what applyDependency came back
\* with: reload the auth state, stamp it on the children, and line up the
\* targets.  When applyDependency threw, the catch of the processRequest
\* above counts a failure and the remaining edges of the request are dropped.
edgeResolved(d, r) ==
  LET log == Append(ex_log, edgeEv(task.name, d, FALSE, r.gate,
                                   Len(r.contexts), nextOf(task.data),
                                   task.via))
      newContexts == [c \in 1..Len(r.contexts) |->
                        [r.contexts[c] EXCEPT !.authState = docAfter(r)]]
  IN  /\ ts_doc' = docAfter(r)
      /\ ex_log' = log
      /\ IF ~r.ok
           THEN /\ ex_stats' = [ex_stats EXCEPT !.failedRequests = @ + 1]
                /\ ex_errors' = errorsPush(ex_errors, task.name)
                /\ ex_tasks' = rest
                /\ UNCHANGED ex_authState
           ELSE /\ ex_authState' = docAfter(r)
                /\ ex_tasks' =
                     requestTasks(newContexts, ex_manifest.deps[d].to,
                                  Len(log), task.sub)
                       \o <<[task EXCEPT !.i = @ + 1]>> \o rest
                /\ UNCHANGED <<ex_stats, ex_errors>>

DependencyResolved ==
  /\ UNCHANGED <<notExec, ex_inflight>>
  /\ running /\ task.op = "deps"
  /\ LET dependencies == dependenciesOf(ex_manifest, task.name)
     IN  /\ task.i <= Len(dependencies)
         /\ ~(isPaginationDependency(ex_manifest.deps[dependencies[task.i]])
                /\ nextOf(task.data).t \in {"null", "undef"})
         /\ edgeResolved(dependencies[task.i],
              applyDependency(ex_manifest.deps[dependencies[task.i]],
                ex_responses, task.ctx,
                isPaginationDependency(ex_manifest.deps[dependencies[task.i]])))
  /\ UNCHANGED <<ex_pc, ex_run, ex_manifest, ex_force, ex_visited,
                 ex_subVisited, ex_responses>>

ProcessDependencies == DependencySkipped \/ DependencyResolved

\* this.authState = (await this.tokenStorage.load()) || undefined
ReloadAuthState ==
  /\ UNCHANGED <<notExec, ex_inflight>>
  /\ running /\ task.op = "reload"
  /\ ex_authState' = ts_doc
  /\ ex_tasks' = rest
  /\ UNCHANGED <<ex_pc, ex_run, ex_manifest, ex_force, ex_visited,
                 ex_subVisited, ex_responses, ex_stats, ex_errors, ex_log,
                 ts_doc>>

\* execute(), one turn of the loop over the entry requests.
NextEntry ==
  /\ UNCHANGED <<notExec, ex_inflight>>
  /\ running /\ task.op = "entries"
  /\ LET entryRequests == findEntryRequests(ex_manifest)
     IN  /\ task.i <= Len(entryRequests)
         /\ ex_tasks' =
              <<Task("request", entryRequests[task.i],
                     createInitialContext(ex_authState), EmptyMap, task.i, 0,
                     FALSE, FALSE),
                [task EXCEPT !.i = @ + 1]>> \o rest
  /\ UNCHANGED <<ex_pc, ex_run, ex_manifest, ex_force, ex_authState,
                 ex_visited, ex_subVisited, ex_responses, ex_stats, ex_errors,
                 ex_log, ts_doc>>

\* execute(), after the last entry request: datasets, summary, result.
ExecuteFinish ==
  /\ UNCHANGED <<notExec, ex_inflight>>
  /\ running /\ task.op = "entries"
  /\ task.i > Len(findEntryRequests(ex_manifest))
  /\ ex_pc' = "done"
  /\ ex_tasks' = <<>>
  /\ ex_log' = Append(ex_log, Ev("datasets"))
  /\ UNCHANGED <<ex_run, ex_manifest, ex_force, ex_authState, ex_visited,
                 ex_subVisited, ex_responses, ex_stats, ex_errors, ts_doc>>

\* Date.now() while a run is under way.
RunClock == 200000

\* The document an earlier use of the store left behind: an access token
\* that has expired by the time of the runs, and a refresh token.
ExpiredTokens ==
  updateRefreshToken(
    updateAccessToken(NoAuth, MkS("t0"), ExpiresIn(TRUE, 0), 100000),
    MkS("r0"))

\* Before the first run: updateAccessToken and updateRefreshToken have been
\* called on the store of the manifest.
TokensLeftBehind ==
  /\ UNCHANGED <<notExec, execVars>>
  /\ ex_pc = "idle" /\ ex_run = 0
  /\ ts_doc = NoAuth
  /\ ts_doc' = stringifyParse(ExpiredTokens)

ExecInit ==
  /\ ex_pc = "idle"
  /\ ex_run = 0
  /\ ex_manifest = NoManifest
  /\ ex_force = FALSE
  /\ ex_authState = NoAuth
  /\ ex_tasks = <<>>
  /\ ex_visited = {}
  /\ ex_subVisited = {}
  /\ ex_responses = EmptyMap
  /\ ex_stats = Stats(0, 0, 0)
  /\ ex_errors = <<>>
  /\ ex_log = <<>>
  /\ ex_inflight = {}

ExecNext ==
  \/ ExecuteStart
  \/ ProcessEnvNode
  \/ ResolveAuthDep
  \/ ResolveTokenDep
  \/ ProcessRequest
  \/ ProcessDependencies
  \/ ReloadAuthState
  \/ NextEntry
  \/ ExecuteFinish
  \/ TokensLeftBehind

(***************************************************************************)
(* Contexts as objects. A RequestContext holds references: cx_obj is the   *)
(* heap of the records its extractedData, credentials and systemVariables  *)
(* point to, cx_ctx the context objects themselves. What follows is what   *)
(* createInitialContext, processEnvNode, extractValues, applyDependency,   *)
(* createContexts and processDependencies allocate, copy and assign.       *)
(***************************************************************************)
MaxContexts == 5
MaxContextOps == 3

\* config.credentials: one record for the whole run.
CredentialsRef == 1
CredentialsRecord == OPut(EmptyMap, "client_id", MkS("cid"))

\* The token documents this.authState may be at, by version.
AuthVersions == {0, 1}

ContextObject(extractedData, credentials, systemVariables, authState) ==
  [extractedData |-> extractedData, credentials |-> credentials,
   systemVariables |-> systemVariables, authState |-> authState]

\* A heap together with a reference into it.
Ref(heap, ref) == [heap |-> heap, ref |-> ref]

\* { key: value, ... }: a new record.
alloc(heap, record) == Ref(Append(heap, record), Len(heap) + 1)

\* spreadAliased: the record itself where a copy of it is due.
spreadAliased(heap, ref) == Ref(heap, ref)

\* { ...record }: a new record with the entries of the old one.
spread(heap, ref) == alloc(heap, heap[ref])

\* record[name] = value
assign(heap, ref, name, value) == [heap EXCEPT ![ref] = OPut(@, name, value)]

\* What a context reads as: the records it points to and its authState.
DeepOf(heap, context) ==
  [extractedData |-> heap[context.extractedData],
   credentials |-> heap[context.credentials],
   systemVariables |-> heap[context.systemVariables],
   authState |-> context.authState]

\* tempContext.extractedData[name] = values[0], for the names with a value.
RECURSIVE assignFirstValues(_, _, _, _)
assignFirstValues(heap, ref, entries, i) ==
  IF i > Len(entries) THEN heap
  ELSE assignFirstValues(
         IF Len(entries[i].v) > 0
           THEN assign(heap, ref, entries[i].k, entries[i].v[1])
           ELSE heap,
         ref, entries, i + 1)

\* context.extractedData[paramName] = combination[index], for every entry.
RECURSIVE assignAll(_, _, _, _, _)
assignAll(heap, ref, entries, combination, i) ==
  IF i > Len(entries) THEN heap
  ELSE assignAll(assign(heap, ref, entries[i].k, combination[i]), ref,
                 entries, combination, i + 1)

\* createContexts on the heap: per value or combination a new context whose
\* extractedData is a copy of the current one, with the names bound in it.
RECURSIVE contextObjects(_, _, _, _, _, _)
contextObjects(heap, entries, cartesian, c, currentContext, acc) ==
  IF c > Len(cartesian) THEN [heap |-> heap, contexts |-> acc]
  ELSE contextObjects(
         assignAll(spread(heap, currentContext.extractedData).heap,
                   spread(heap, currentContext.extractedData).ref,
                   entries, cartesian[c], 1),
         entries, cartesian, c + 1, currentContext,
         Append(acc,
                [currentContext EXCEPT
                   !.extractedData =
                     spread(heap, currentContext.extractedData).ref]))

\* applyDependency from tempContext on: the copy selectwhere is evaluated
\* in, then the children when the gate lets them through.
childObjects(heap, entries, currentContext, gate) ==
  IF Len(entries) = 0 THEN [heap |-> heap, contexts |-> <<>>]
  ELSE IF ~gate
    THEN [heap |-> assignFirstValues(
                     spread(heap, currentContext.extractedData).heap,
                     spread(heap, currentContext.extractedData).ref,
                     entries, 1),
          contexts |-> <<>>]
  ELSE contextObjects(
         assignFirstValues(spread(heap, currentContext.extractedData).heap,
                           spread(heap, currentContext.extractedData).ref,
                           entries, 1),
         entries,
         cartesianProduct([i \in 1..Len(entries) |-> entries[i].v],
                          Len(entries)),
         1, currentContext, <<>>)

\* The extracted values an edge may come with: name and distinct values.
Entry(k, v) == [k |-> k, v |-> v]
ContextEntries ==
  { <<>>,
    <<Entry("id", <<MkS("a"), MkS("b")>>)>>,
    <<Entry("id", <<MkS("c")>>)>>,
    <<Entry("id", <<>>)>>,
    <<Entry("id", <<MkS("a"), MkS("b")>>), Entry("kind", <<MkS("x")>>)>>,
    <<Entry("id", <<MkS("1"), MkS("2")>>),
      Entry("kind", <<MkS("p"), MkS("q")>>)>>,
    <<Entry("id", <<MkS("a"), MkS("b")>>), Entry("kind", <<>>)>>,
    <<Entry("id", <<MkS("a"), MkS("b")>>), Entry("kind", <<MkS("p")>>),
      Entry("tag", <<MkS("u"), MkS("v")>>)>> }

\* The nested selects of a select: name and the values extracted for it.
NestedEntries ==
  { <<Entry("id", <<MkS("n")>>)>>,
    <<Entry("total", <<MkS("t")>>), Entry("none", <<>>)>> }

\* nestedContext.extractedData[nestedSelect.name] = values, when not empty.
RECURSIVE assignNested(_, _, _, _)
assignNested(heap, ref, nested, i) ==
  IF i > Len(nested) THEN heap
  ELSE assignNested(
         IF Len(nested[i].v) > 0
           THEN assign(heap, ref, nested[i].k, MkL(nested[i].v))
           ELSE heap,
         ref, nested, i + 1)

\* createInitialContext, and for the env node the systemVariables
\* processEnvNode replaces on the context it has just made.
CtxCreateInitial ==
  /\ UNCHANGED notCtx
  /\ cx_ops < MaxContextOps
  /\ Len(cx_ctx) < MaxContexts
  /\ \E env \in BOOLEAN, authState \in AuthVersions :
       LET sys == alloc(cx_obj, OPut(EmptyMap, "precog_redirect_uri",
                                     MkS("http://localhost:3000/callback")))
           data == alloc(sys.heap, EmptyMap)
           envSys == spread(data.heap, sys.ref)
           heap == IF env
                     THEN assign(envSys.heap, envSys.ref, "precog_state",
                                 MkS(PrecogState))
                     ELSE data.heap
           context == ContextObject(data.ref, CredentialsRef,
                                    IF env THEN envSys.ref ELSE sys.ref,
                                    authState)
       IN  /\ cx_obj' = heap
           /\ cx_ctx' = Append(cx_ctx, context)
           /\ cx_made' = Append(cx_made, DeepOf(heap, context))
           /\ cx_from' = Append(cx_from, [parent |-> 0, edge |-> cx_ops + 1])
  /\ cx_ops' = cx_ops + 1
  /\ UNCHANGED cx_edges

\* One edge out of a context: applyDependency makes the children, then
\* processDependencies stamps each of them with this.authState.
CtxApplyDependency ==
  /\ UNCHANGED notCtx
  /\ cx_ops < MaxContextOps
  /\ \E p \in 1..Len(cx_ctx), entries \in ContextEntries, gate \in BOOLEAN,
        authState \in AuthVersions :
       LET made == childObjects(cx_obj, entries, cx_ctx[p], gate)
           n == Len(made.contexts)
           all == cx_ctx \o made.contexts
           stamped == [i \in 1..Len(all) |->
                         IF i > Len(cx_ctx)
                           THEN [all[i] EXCEPT !.authState = authState]
                           ELSE all[i]]
       IN  /\ Len(cx_ctx) + n <= MaxContexts
           /\ cx_obj' = made.heap
           /\ cx_ctx' = stamped
           /\ cx_made' =
                cx_made \o [i \in 1..n |->
                              DeepOf(made.heap, stamped[Len(cx_ctx) + i])]
           /\ cx_from' =
                cx_from \o [i \in 1..n |-> [parent |-> p, edge |-> cx_ops + 1]]
           /\ cx_edges' =
                Append(cx_edges,
                       [parent |-> p, entries |-> entries, gate |-> gate,
                        first |-> Len(cx_ctx) + 1, children |-> n])
  /\ cx_ops' = cx_ops + 1

\* extractValues of a select with nested selects, in a context: the nested
\* values go into a copy local to the call.
CtxNestedSelect ==
  /\ UNCHANGED notCtx
  /\ cx_ops < MaxContextOps
  /\ \E c \in 1..Len(cx_ctx), nested \in NestedEntries :
       cx_obj' = assignNested(spread(cx_obj, cx_ctx[c].extractedData).heap,
                              spread(cx_obj, cx_ctx[c].extractedData).ref,
                              nested, 1)
  /\ cx_ops' = cx_ops + 1
  /\ UNCHANGED <<cx_ctx, cx_made, cx_from, cx_edges>>

CtxInit ==
  /\ cx_obj = <<CredentialsRecord>>
  /\ cx_ctx = <<>>
  /\ cx_made = <<>>
  /\ cx_from = <<>>
  /\ cx_edges = <<>>
  /\ cx_ops = 0

CtxNext == CtxCreateInitial \/ CtxApplyDependency \/ CtxNestedSelect

(***************************************************************************)
(* findEntryRequests on its own, over manifests put together from a pool   *)
(* of requests and edges.                                                  *)
(***************************************************************************)
MaxEntryReqs == 3
MaxEntryDeps == 1

EntryReqPool ==
  { Req("a", UrlTemplate("api/a", <<>>), "", NoUrl, <<>>),
    Req("b", UrlTemplate("api/b", <<"id">>), "", NoUrl, <<>>),
    Req("c", UrlTemplate("api/c", <<>>), "", NoUrl, <<"token">>),
    Req("d", NoUrl, "", NoUrl, <<>>),
    Req("env", UrlTemplate("api/env", <<>>), "", NoUrl, <<>>),
    Req("auth", UrlTemplate("idp/login", <<>>), OAuth2Function, NoUrl, <<>>),
    Req("auth2", UrlTemplate("idp/login2", <<>>), OAuth2Function, NoUrl,
        <<>>),
    Req("t", UrlTemplate("oauth/token", <<>>), "", NoUrl, <<>>) }

EntryDepPool ==
  { Dep(<<"auth">>, <<"t">>, <<>>, NoExpr, ""),
    Dep(<<"a", "auth">>, <<"a", "c">>, <<>>, NoExpr, ""),
    Dep(<<"auth2">>, <<"a">>, <<>>, NoExpr, ""),
    Dep(<<"a">>, <<"t">>, <<>>, NoExpr, "delta") }

EntryManifests ==
  {[id |-> "pool", reqs |-> reqs, deps |-> deps] :
     reqs \in UNION {[1..n -> EntryReqPool] : n \in 0..MaxEntryReqs},
     deps \in UNION {[1..n -> EntryDepPool] : n \in 0..MaxEntryDeps}}

\* new RskExecutor(rsk, ...) and findEntryRequests() on it: execute() calls
\* it once.
FindEntryRequests ==
  /\ UNCHANGED notEntry
  /\ fe_calls = 0
  /\ \E m \in EntryManifests :
       /\ fe_manifest' = m
       /\ fe_found' = findEntryRequests(m)
  /\ fe_calls' = fe_calls + 1

EntryInit ==
  /\ fe_calls = 0
  /\ fe_manifest = NoManifest
  /\ fe_found = <<>>

EntryNext == FindEntryRequests

(***************************************************************************)
(* TokenStorage on its own: awaited calls of saveAuthyValue,               *)
(* updateAccessToken and updateRefreshToken on one store, from no file.    *)
(***************************************************************************)
MaxStoreCalls == 3

AuthyKeys == {"k1", "k2"}
AuthyArguments == {MkS("v1"), MkS("v2"), JUndef}
TokenArguments == {MkS("t1"), MkS("t2")}
ExpiresInArguments ==
  {ExpiresIn(FALSE, 0), ExpiresIn(TRUE, 0), ExpiresIn(TRUE, 3600),
   ExpiresIn(TRUE, 60), ExpiresIn(TRUE, -40)}
\* Date.now() at the calls: it never goes back.
Clock == {100000, 200000}

StoreSaveAuthyValue ==
  /\ UNCHANGED notStore
  /\ ts_calls < MaxStoreCalls
  /\ \E key \in AuthyKeys, value \in AuthyArguments :
       /\ ts_doc' = stringifyParse(saveAuthyValue(ts_doc, key, value))
       /\ ts_written' = [ts_written EXCEPT !.authyValues[key] = value]
  /\ ts_last' = "saveAuthyValue"
  /\ ts_before' = ts_last
  /\ ts_calls' = ts_calls + 1
  /\ UNCHANGED <<ts_ttl, ts_now, ts_expired>>

StoreUpdateAccessToken ==
  /\ UNCHANGED notStore
  /\ ts_calls < MaxStoreCalls
  /\ \E accessToken \in TokenArguments, expiresIn \in ExpiresInArguments,
        now \in Clock :
       /\ ts_doc' = stringifyParse(
                      updateAccessToken(ts_doc, accessToken, expiresIn, now))
       /\ ts_written' =
            [ts_written EXCEPT
               !.accessToken = accessToken,
               !.expiresAt = IF expiresIn.given
                               THEN now + (expiresIn.n - 60) * 1000
                               ELSE @]
       /\ now >= ts_now
       /\ ts_now' = now
       /\ ts_ttl' = expiresIn
  /\ ts_last' = "updateAccessToken"
  /\ ts_before' = ts_last
  /\ ts_calls' = ts_calls + 1
  /\ UNCHANGED ts_expired

StoreUpdateRefreshToken ==
  /\ UNCHANGED notStore
  /\ ts_calls < MaxStoreCalls
  /\ \E refreshToken \in TokenArguments :
       /\ ts_doc' = stringifyParse(updateRefreshToken(ts_doc, refreshToken))
       /\ ts_written' = [ts_written EXCEPT !.refreshToken = refreshToken]
  /\ ts_last' = "updateRefreshToken"
  /\ ts_before' = ts_last
  /\ ts_calls' = ts_calls + 1
  /\ UNCHANGED <<ts_ttl, ts_now, ts_expired>>

StoreIsTokenExpired ==
  /\ UNCHANGED <<notStore, ts_doc, ts_written, ts_ttl>>
  /\ ts_calls < MaxStoreCalls
  /\ \E now \in Clock :
       /\ now >= ts_now
       /\ ts_now' = now
       /\ ts_expired' = isTokenExpired(ts_doc, now)
  /\ ts_last' = "isTokenExpired"
  /\ ts_before' = ts_last
  /\ ts_calls' = ts_calls + 1

CallInit ==
  /\ ts_calls = 0
  /\ ts_last = ""
  /\ ts_before = ""
  /\ ts_ttl = ExpiresIn(FALSE, 0)
  /\ ts_now = 0
  /\ ts_expired = FALSE
  /\ ts_written = [accessToken |-> JUndef, refreshToken |-> JUndef,
                   expiresAt |-> 0,
                   authyValues |-> [k \in AuthyKeys |-> JUndef]]

StoreNext ==
  \/ StoreSaveAuthyValue
  \/ StoreUpdateAccessToken
  \/ StoreUpdateRefreshToken
  \/ StoreIsTokenExpired

(***************************************************************************)
(* saveDatasets on its own, over the results processRequest may have       *)
(* stored and the datasets a manifest may name.                            *)
(***************************************************************************)
MaxStored == 2
MaxDatasets == 1

\* A response body as saveDatasets looks at it: t is "obj", "arr", "str" or
\* "null"; isArray says that it has a member results that is an array, whose
\* elements are then in results; id tells bodies apart.
Body(t, isArray, results, id) ==
  [t |-> t, isArray |-> isArray, results |-> results, id |-> id]
Record(id) == Body("obj", FALSE, <<>>, id)
StoredBodies ==
  { Body("obj", TRUE, <<Record(1), Record(2)>>, 10),
    Body("obj", TRUE, <<>>, 11),
    Body("obj", FALSE, <<>>, 12),
    Body("arr", FALSE, <<>>, 13),
    Body("str", FALSE, <<>>, 14),
    Body("null", FALSE, <<>>, 15) }

DatasetNames == {"My Data", "my_data"}
DatasetData == {<<>>, <<"a">>, <<"b", "a">>, <<"a", "a">>, <<"c">>}
DatasetDefs == {[name |-> n, data |-> d] : n \in DatasetNames, d \in DatasetData}

\* The maps processRequest may have built: a request that has answered has at
\* least one result.
ExtractedMaps ==
  {[n \in names |-> IF n = "a" THEN a ELSE b] :
     names \in SUBSET {"a", "b"},
     a \in UNION {[1..k -> StoredBodies] : k \in 1..MaxStored},
     b \in [1..1 -> StoredBodies]}

\* name.replace(/\s+/g, '_').toLowerCase() + '.json', for the names above.
fileNameOf(name) ==
  CASE name = "My Data" -> "my_data.json"
    [] name = "my_data" -> "my_data.json"
    [] OTHER -> name

\* What one result adds: result.data.results when that is an array, else
\* result.data; reading results off null throws.
Pushed(threw, records) == [threw |-> threw, records |-> records]
pushResult(acc, body) ==
  IF acc.threw THEN acc
  ELSE IF body.t = "null" THEN Pushed(TRUE, acc.records)
  ELSE IF body.isArray THEN Pushed(FALSE, acc.records \o body.results)
  ELSE Pushed(FALSE, Append(acc.records, body))

RECURSIVE pushResults(_, _, _)
pushResults(acc, results, i) ==
  IF i > Len(results) THEN acc
  ELSE pushResults(pushResult(acc, results[i]), results, i + 1)

\* The loop over datasetDef.data.
RECURSIVE datasetResults(_, _, _, _)
datasetResults(acc, data, extracted, i) ==
  IF i > Len(data) THEN acc
  ELSE datasetResults(
         IF Has(extracted, data[i])
           THEN pushResults(acc, extracted[data[i]], 1)
           ELSE acc,
         data, extracted, i + 1)

\* saveDatasets: per dataset its results, and a file when there are any; an
\* exception ends it.
Saved(threw, written) == [threw |-> threw, written |-> written]
RECURSIVE saveDatasets(_, _, _, _)
saveDatasets(acc, datasets, extracted, i) ==
  IF acc.threw \/ i > Len(datasets) THEN acc
  ELSE saveDatasets(
         IF datasetResults(Pushed(FALSE, <<>>), datasets[i].data, extracted,
                           1).threw
           THEN Saved(TRUE, acc.written)
         ELSE IF Len(datasetResults(Pushed(FALSE, <<>>), datasets[i].data,
                                    extracted, 1).records) > 0
           THEN Saved(FALSE,
                  Append(acc.written,
                    [dataset |-> i,
                     file |-> fileNameOf(datasets[i].name),
                     records |->
                       datasetResults(Pushed(FALSE, <<>>), datasets[i].data,
                                      extracted, 1).records]))
         ELSE acc,
         datasets, extracted, i + 1)

\* execute() calls it once, after the last entry request.
SaveDatasets ==
  /\ UNCHANGED notDatasets
  /\ ds_calls = 0
  /\ \E datasets \in UNION {[1..k -> DatasetDefs] : k \in 0..MaxDatasets},
        extracted \in ExtractedMaps :
       /\ ds_datasets' = datasets
       /\ ds_extracted' = extracted
       /\ ds_written' =
            saveDatasets(Saved(FALSE, <<>>), datasets, extracted, 1).written
       /\ ds_threw' =
            saveDatasets(Saved(FALSE, <<>>), datasets, extracted, 1).threw
  /\ ds_calls' = ds_calls + 1

DatasetsInit ==
  /\ ds_calls = 0
  /\ ds_datasets = <<>>
  /\ ds_extracted = EmptyMap
  /\ ds_written = <<>>
  /\ ds_threw = FALSE

DatasetsNext == SaveDatasets

(***************************************************************************)
(* PostHogClient (posthog/client.ts) and RateLimiter (rate-limiter.ts):    *)
(* calls of get that run concurrently on one client.  A call runs until    *)
(* its next await; the clock moves between the steps.                      *)
(***************************************************************************)
MaxClientCalls == 3
MaxTicks == 3
MaxRateLimited == 1
\* The limits the limiter is constructed with.
MinuteLimit == 2
HourLimit == 3

MinuteWindow == 60000
HourWindow == 3600000
MaxSlotWait == 1000
ClientMaxRetries == 3
ClientRetryDelay == 1000
\* What the clock moves by between two steps.
Tick == 30000

NoWindow == [exists |-> FALSE, windowEnd |-> 0, count |-> 0]

\* getOrCreateWindow: the window, or a new one when there is none or it is
\* over.
getOrCreateWindow(window, now, windowSize) ==
  IF ~window.exists \/ now >= window.windowEnd
    THEN [exists |-> TRUE, windowEnd |-> now + windowSize, count |-> 0]
    ELSE window

Full(window, limit, now) == window.count >= limit /\ now < window.windowEnd

\* canProceed: what it answers and the windows it leaves; the hour window is
\* not looked at when the minute window is full.
canProceed(windows, now) ==
  LET minuteWindow == getOrCreateWindow(windows.minute, now, MinuteWindow)
      hourWindow == getOrCreateWindow(windows.hour, now, HourWindow)
  IN  IF Full(minuteWindow, MinuteLimit, now)
        THEN [ok |-> FALSE,
              windows |-> [minute |-> minuteWindow, hour |-> windows.hour]]
        ELSE [ok |-> ~Full(hourWindow, HourLimit, now),
              windows |-> [minute |-> minuteWindow, hour |-> hourWindow]]

\* recordRequest: both windows, each counted up by one.
recordRequest(windows, now) ==
  [minute |-> [getOrCreateWindow(windows.minute, now, MinuteWindow)
                 EXCEPT !.count = @ + 1],
   hour |-> [getOrCreateWindow(windows.hour, now, HourWindow)
               EXCEPT !.count = @ + 1]]

Max(a, b) == IF a >= b THEN a ELSE b

\* setRetryAfter: the windows there are end no earlier than now + seconds.
setRetryAfter(windows, now, retryAfterSeconds) ==
  [w \in {"minute", "hour"} |->
     IF windows[w].exists
       THEN [windows[w] EXCEPT
               !.windowEnd = Max(@, now + retryAfterSeconds * 1000)]
       ELSE windows[w]]

\* getWaitTime: the longest time a full window still has to run.
getWaitTime(windows, now) ==
  Max(IF windows.minute.exists /\ Full(windows.minute, MinuteLimit, now)
        THEN windows.minute.windowEnd - now ELSE 0,
      IF windows.hour.exists /\ Full(windows.hour, HourLimit, now)
        THEN windows.hour.windowEnd - now ELSE 0)

GetCall(pc, attempt, wake) == [pc |-> pc, attempt |-> attempt, wake |-> wake]
ClientCalls == 1..MaxClientCalls

\* 2^n, for the backoff of the client.
RECURSIVE pow2(_)
pow2(n) == IF n = 0 THEN 1 ELSE 2 * pow2(n - 1)

\* request() up to its first await: waitForSlot runs canProceed and either
\* returns, the caller then waiting for the promise it awaits, or sets a
\* timer of at most a second.  Also: waitForSlot going round its loop when
\* the timer has fired, and request() called again after a backoff.
WaitForSlot ==
  /\ UNCHANGED notLimiter
  /\ \E c \in ClientCalls :
       /\ \/ rl_calls[c].pc = "idle"
          \/ rl_calls[c].pc \in {"sleeping", "backoff"}
               /\ rl_now >= rl_calls[c].wake
       /\ rl_windows' = canProceed(rl_windows, rl_now).windows
       /\ rl_calls' =
            [rl_calls EXCEPT
               ![c] = IF canProceed(rl_windows, rl_now).ok
                        THEN GetCall("slot", @.attempt, 0)
                        ELSE GetCall("sleeping", @.attempt,
                               rl_now
                                 + Min(getWaitTime(
                                         canProceed(rl_windows, rl_now).windows,
                                         rl_now),
                                       MaxSlotWait))]
  /\ UNCHANGED <<rl_now, rl_limited, rl_retryAt>>

\* request() after await waitForSlot(): recordRequest, then fetch.
RecordRequest ==
  /\ UNCHANGED notLimiter
  /\ \E c \in ClientCalls :
       /\ rl_calls[c].pc = "slot"
       /\ rl_windows' = recordRequest(rl_windows, rl_now)
       /\ rl_calls' = [rl_calls EXCEPT ![c].pc = "fetching"]
  /\ UNCHANGED <<rl_now, rl_limited, rl_retryAt>>

\* fetch answered with a status that ends the call: 2xx, or another error.
FetchReturns ==
  /\ UNCHANGED notLimiter
  /\ \E c \in ClientCalls, ok \in BOOLEAN :
       /\ rl_calls[c].pc = "fetching"
       /\ rl_calls' =
            [rl_calls EXCEPT ![c].pc = IF ok THEN "done" ELSE "failed"]
  /\ UNCHANGED <<rl_now, rl_windows, rl_limited, rl_retryAt>>

\* fetch answered 429: setRetryAfter when there is a retry-after header,
\* then a backoff and the next attempt, or an error after the last one.
FetchRateLimited ==
  /\ UNCHANGED notLimiter
  /\ rl_limited < MaxRateLimited
  /\ \E c \in ClientCalls, header \in BOOLEAN, retryAfterSeconds \in {30} :
       /\ rl_calls[c].pc = "fetching"
       /\ rl_windows' =
            IF header
              THEN setRetryAfter(rl_windows, rl_now, retryAfterSeconds)
              ELSE rl_windows
       /\ rl_retryAt' =
            IF header THEN Max(rl_retryAt, rl_now + retryAfterSeconds * 1000)
            ELSE rl_retryAt
       /\ rl_calls' =
            [rl_calls EXCEPT
               ![c] = IF @.attempt < ClientMaxRetries
                        THEN GetCall("backoff", @.attempt + 1,
                                  rl_now + ClientRetryDelay * pow2(@.attempt))
                        ELSE GetCall("failed", @.attempt, 0)]
  /\ rl_limited' = rl_limited + 1
  /\ UNCHANGED rl_now

\* Time passes.
ClockTicks ==
  /\ UNCHANGED notLimiter
  /\ rl_now < MaxTicks * Tick
  /\ rl_now' = rl_now + Tick
  /\ UNCHANGED <<rl_windows, rl_calls, rl_limited, rl_retryAt>>

LimiterInit ==
  /\ rl_now = 0
  /\ rl_windows = [minute |-> NoWindow, hour |-> NoWindow]
  /\ rl_calls = [c \in ClientCalls |-> GetCall("idle", 0, 0)]
  /\ rl_limited = 0
  /\ rl_retryAt = 0

LimiterNext ==
  \/ WaitForSlot
  \/ RecordRequest
  \/ FetchReturns
  \/ FetchRateLimited
  \/ ClockTicks

(***************************************************************************)
(* Specifications: one per component, from the state after construction.   *)
(***************************************************************************)
(***************************************************************************)
(* The authorize URL: what processEnvNode opens in the browser and what    *)
(* authorize makes of it (executor.ts, oauth2-handler.ts).                 *)
(***************************************************************************)
notAuthUrl ==
  <<httpVars, oauthVars, storeVars, resolverVars, execVars, ctxVars,
    entryVars, callVars, datasetVars, limiterVars>>

\* A query parameter of a URL template: a literal value, or {{var}}; and of
\* a URL: its value.
TemplateParam(name, lit, var) == [name |-> name, lit |-> lit, var |-> var]
Param(name, value) == [name |-> name, value |-> value]
NoQuery == <<>>

\* The authorize URLs of the model: with or without client_id, redirect_uri
\* and state, each written out or taken from a variable, and scope.
ClientIdParams ==
  {<<>>, <<TemplateParam("client_id", "", "wsk_to_rsk_client_id")>>}
RedirectUriParams ==
  {<<>>, <<TemplateParam("redirect_uri", "", "precog_redirect_uri")>>,
   <<TemplateParam("redirect_uri", "http://app/cb", "")>>}
StateQueryParams ==
  {<<>>, <<TemplateParam("state", "", "precog_state")>>,
   <<TemplateParam("state", "fixed", "")>>,
   <<TemplateParam("state", "", "missing_state")>>}
ScopeParams == {<<>>, <<TemplateParam("scope", "read", "")>>}
AuthorizeTemplates ==
  {c \o r \o t \o p :
     c \in ClientIdParams, r \in RedirectUriParams, t \in StateQueryParams,
     p \in ScopeParams}
GeneratedStates == {"s1", "s2"}

\* url.searchParams.has / get / set: set replaces the first parameter of the
\* name or appends one.
searchHas(query, name) == \E i \in 1..Len(query) : query[i].name = name
searchGet(query, name) ==
  query[CHOOSE i \in 1..Len(query) :
          query[i].name = name /\ \A j \in 1..(i - 1) : query[j].name # name]
    .value
searchSet(query, name, value) ==
  IF searchHas(query, name)
    THEN [i \in 1..Len(query) |->
            IF query[i].name = name THEN Param(name, value) ELSE query[i]]
    ELSE Append(query, Param(name, value))

\* The context processEnvNode interpolates the authorize URL in.
envContextWith(precogState) ==
  [createInitialContext(NoAuth) EXCEPT
     !.systemVariables = Put(@, "precog_state", MkS(precogState))]

\* interpolateString over the authorize URL: every {{var}} replaced by
\* String(value); throws when one does not resolve.
templateResolves(template, context) ==
  \A i \in 1..Len(template) :
    template[i].var # "" => resolveVariable(template[i].var, context).ok
interpolateQuery(template, context) ==
  [i \in 1..Len(template) |->
     Param(template[i].name,
           IF template[i].var = "" THEN template[i].lit
           ELSE resolveVariable(template[i].var, context).v.s)]

\* authorize, up to waitForCallback: redirect_uri and state are set on the
\* URL when it has none.
injectedWhenAbsent(query, redirectUri, state) ==
  LET withRedirect == IF searchHas(query, "redirect_uri") THEN query
                      ELSE searchSet(query, "redirect_uri", redirectUri)
  IN  IF searchHas(withRedirect, "state") THEN withRedirect
      ELSE searchSet(withRedirect, "state", state)

\* processEnvNode: the state is generated, the authorize URL interpolated
\* and opened in the browser (or interpolation throws and the run fails).
EnvOpensBrowser ==
  /\ UNCHANGED notAuthUrl
  /\ au_pc = "idle"
  /\ \E template \in AuthorizeTemplates, precogState \in GeneratedStates :
       /\ au_template' = template
       /\ au_state' = precogState
       /\ IF templateResolves(template, envContextWith(precogState))
            THEN /\ au_opened' =
                      interpolateQuery(template, envContextWith(precogState))
                 /\ au_pc' = "opened"
            ELSE /\ au_opened' = au_opened
                 /\ au_pc' = "failed"
  /\ UNCHANGED <<au_url, au_expected>>

\* authorize(authorizeUrl, precogState): the state supplied is the one to
\* expect, the URL with the two parameters injected is built and logged, and
\* waitForCallback(state) is called.
AuthorizeCalled ==
  /\ UNCHANGED notAuthUrl
  /\ au_pc = "opened"
  /\ au_expected' = au_state
  /\ au_url' = injectedWhenAbsent(au_opened, RedirectUri.s, au_state)
  /\ au_pc' = "listening"
  /\ UNCHANGED <<au_template, au_state, au_opened>>

AuthUrlInit ==
  /\ au_pc = "idle"
  /\ au_template = NoQuery
  /\ au_state = ""
  /\ au_opened = NoQuery
  /\ au_url = NoQuery
  /\ au_expected = ""

AuthUrlNext == EnvOpensBrowser \/ AuthorizeCalled

vars ==
  <<httpVars, oauthVars, storeVars, resolverVars, execVars, ctxVars,
    entryVars, callVars, datasetVars, limiterVars, authUrlVars>>

Init ==
  /\ HttpInit /\ OAuthInit /\ StoreInit /\ ResolverInit /\ ExecInit
  /\ CtxInit /\ EntryInit /\ CallInit /\ DatasetsInit /\ LimiterInit
  /\ AuthUrlInit

SpecHttp == Init /\ [][HttpNext]_vars
SpecOAuth == Init /\ [][OAuthNext]_vars
SpecResolver == Init /\ [][ResolverNext]_vars
SpecExec == Init /\ [][ExecNext]_vars
SpecContexts == Init /\ [][CtxNext]_vars
SpecEntries == Init /\ [][EntryNext]_vars
SpecStore == Init /\ [][StoreNext]_vars
SpecDatasets == Init /\ [][DatasetsNext]_vars
SpecLimiter == Init /\ [][LimiterNext]_vars
SpecAuthorizeUrl == Init /\ [][AuthUrlNext]_vars
\* setTimeout: the timer armed by waitForCallback is never cleared, and the
\* event loop runs it when its five minutes are over.
SpecOAuthLive == SpecOAuth /\ WF_vars(CallbackTimeout)

(***************************************************************************)
(* Properties of HttpClient.request (specification SpecHttp).              *)
(***************************************************************************)
HttpDone == h_pc \in {"returned", "raised"}

\* C2: once a response has matched a failwhere condition, the request raises
\* the error at once: the fail match is the last thing that happens, no
\* backoff sleep and no further HTTP call follow it.
C2_FailRaisesWithoutRetry ==
  \A i \in 1..Len(h_log) :
    h_log[i].e = "fail" => (i = Len(h_log) /\ h_pc = "raised")

\* The retry-on-429 scenario with retries = n: n responses 429, then 200.
C3_Scenario(n) ==
  /\ h_trs = <<Transformer(<<Cond(429, NoExpr, "")>>, n, 10, None, <<>>)>>
  /\ h_script = [i \in 1..n |-> Outcome("resp", 429)]
  /\ h_tail = Outcome("resp", 200)
  /\ headersResolve(h_headers, h_ctx)

\* C3: with retrywhere.conditions = [{status: 429}], retries = n and
\* initialDelay = 10, n responses 429 followed by 200 are answered by n + 1
\* attempts with sleeps 10, 20, ... between them, and the 200 response is
\* returned.
C3_RetriesThenReturnsSuccess ==
  \A n \in 1..(MaxScript + 1) :
    (C3_Scenario(n) /\ HttpDone) =>
      /\ h_pc = "returned"
      /\ h_result.status = 200
      /\ Calls(h_log) = n + 1
      /\ Sleeps(h_log) = [i \in 1..n |-> 10 * 2 ^ (i - 1)]

\* What is left of a request: 0 once it has ended.
HttpMeasure ==
  CASE HttpDone -> 0
    [] h_pc = "idle" -> 13
    [] OTHER -> 12 - attemptNumber

\* C4: a call of HttpClient.request issues at most 10 HTTP calls and then
\* ends, returning a response or raising an error.
\* Every step of the request strictly decreases HttpMeasure, a natural number,
\* so no request runs forever; one that has ended has returned a response or
\* raised an error.
C4_AtMostTenCallsThenEnds ==
  /\ [](Calls(h_log) <= 10)
  /\ [](h_pc = "returned" => h_result # NoResult /\ h_error = "")
  /\ [](h_pc = "raised" => h_error # "" /\ h_result = NoResult)
  /\ [][HttpMeasure' < HttpMeasure /\ HttpMeasure' >= 0]_vars

\* C4 witness: the request has ended after its tenth HTTP call.
C4_Witness == HttpDone /\ Calls(h_log) = 10

(***************************************************************************)
(* Properties of the OAuth2 callback (specification SpecOAuth).            *)
(***************************************************************************)
CallbackEntries == {i \in 1..Len(oa_log) : oa_log[i].path = "callback"}

\* C10 as claimed: every /callback request whose state differs from the
\* expected one is answered with status 400 and fails the flow, whatever its
\* other parameters are.
C10_StateMismatchAlways400 ==
  \A i \in CallbackEntries :
    oa_log[i].state # oa_expected =>
      oa_log[i].status = 400 /\ oa_pc = "rejected"

\* C10 amended: every /callback request whose state differs from the expected
\* one fails the flow; it is answered with status 400 unless it carries a
\* non-empty error parameter, and then with the error page, status 200.
C10_StateMismatchRejected ==
  \A i \in CallbackEntries :
    oa_log[i].state # oa_expected =>
      /\ oa_pc = "rejected"
      /\ oa_result = NoCallbackResult
      /\ oa_log[i].status = IF Present(oa_log[i].error) THEN 200 ELSE 400

\* C10 witness: a callback with a code and a wrong state was answered 400.
C10_Witness ==
  \E i \in CallbackEntries :
    /\ oa_log[i].state = "evil" /\ oa_log[i].code = "c1"
    /\ ~Present(oa_log[i].error)
    /\ oa_log[i].status = 400 /\ oa_pc = "rejected"

(***************************************************************************)
(* Properties of extractValues (specification SpecResolver).               *)
(***************************************************************************)
AuthyWritten ==
  \E i \in 1..Len(rv_writes) : rv_writes[i].key = rv_select.name

\* C6: a select with authy = true makes extractValues call saveAuthyValue
\* for the select's name if and only if the call yielded at least one value,
\* whichever extraction branch produced the values.
C6_AuthyWriteIffYielded ==
  (rv_calls > 0 /\ rv_select.authy) => (AuthyWritten <=> Len(rv_values) > 0)


(***************************************************************************)
(* Properties of RskExecutor.execute (specification SpecExec).             *)
(***************************************************************************)
LogIndex == 1..Len(ex_log)
IsHttp(i) == ex_log[i].op = "http"
IsEdge(i) == ex_log[i].op = "edge"
\* A request was issued, or is lined up, in a context the edge event i made.
IssuedVia(i) == \E j \in LogIndex : IsHttp(j) /\ ex_log[j].via = i
LinedUpVia(i) ==
  \E k \in 1..Len(ex_tasks) : ex_tasks[k].op = "request" /\ ex_tasks[k].via = i

\* C1: in a run, the HTTP client is called at most once for a urlKey
\* (request name and interpolated URL), the calls made inside the OAuth2
\* sub-flow included.
C1_UrlKeyIssuedOnce ==
  \A i, j \in LogIndex :
    (i < j /\ IsHttp(i) /\ IsHttp(j)) =>
      ~(ex_log[i].name = ex_log[j].name /\ ex_log[i].url = ex_log[j].url)

\* C5: an edge with a selectwhere gives child contexts, and its targets are
\* issued through it, only when selectwhere came out truthy; when it is
\* falsy or throws there is no child and no target is issued or lined up
\* through the edge.  In the plain manifest an item is fetched only when the
\* list answered flag = "yes".
C5_SelectwhereGates ==
  /\ \A i \in LogIndex :
       (/\ IsEdge(i)
        /\ ex_manifest.deps[ex_log[i].dep].selectwhere # NoExpr
        /\ ex_log[i].gate # "truthy")
         => (ex_log[i].children = 0 /\ ~IssuedVia(i) /\ ~LinedUpVia(i))
  /\ \A j \in LogIndex :
       (IsHttp(j) /\ ex_log[j].name = "item") =>
         /\ IsEdge(ex_log[j].via)
         /\ ex_log[ex_log[j].via].gate = "truthy"
         /\ Has(ex_responses["list"][1], "flag")
         /\ ex_responses["list"][1]["flag"] = MkS("yes")

\* A run that ended after an edge with a selectwhere came out falsy or
\* threw, on a list response that held two ids to fan out over.
C5_Witness ==
  /\ ex_pc = "done"
  /\ \E i \in LogIndex :
       /\ IsEdge(i)
       /\ ex_manifest.deps[ex_log[i].dep].selectwhere # NoExpr
       /\ ex_log[i].gate \in {"falsy", "throws"}
       /\ Len(ex_responses["list"][1]["ids"].l) = 2

\* C7: a pagination edge is resolved after a response exactly when the
\* response's next is none of null, absent, empty string; otherwise it is
\* skipped and no page is requested through it.
C7_PaginationResolvedIffNext ==
  \A i \in LogIndex :
    (IsEdge(i) /\ isPaginationDependency(ex_manifest.deps[ex_log[i].dep])) =>
      LET stop == ex_log[i].next \in {JUndef, JNull, MkS("")}
      IN  /\ ex_log[i].skipped <=> stop
          /\ stop => ~IssuedVia(i)

\* C8: a run without forceReauth that starts on tokens persisted by a
\* previous successful run of the manifest skips the OAuth2 sub-flow: no
\* browser, no callback listener, no token-exchange request.
C8_ValidTokensSkipOAuth2 ==
  (/\ ex_run > 0
   /\ ~ex_log[1].force
   /\ ex_log[1].prevDone
   /\ ex_log[1].doc.exists
   /\ Has(ex_log[1].doc.authyValues, "access_token"))
    => \A i \in LogIndex :
         /\ ex_log[i].op \notin {"browser", "listen"}
         /\ ~(IsHttp(i) /\ ex_log[i].sub)

\* C9: a run started with forceReauth on a populated token store clears the
\* document before anything else (HTTP request, browser, listener), and no
\* request of the run carries an auth state of the document that was there
\* before: every auth state a request carries, and the document itself if
\* there is one again, was created in this run.
ForcedOnPopulated == ex_run > 0 /\ ex_log[1].force /\ ex_log[1].doc.exists
C9_ForceReauthClearsFirst ==
  ForcedOnPopulated =>
    /\ ex_log[2].op = "clear" /\ ~ex_log[2].doc.exists
    /\ \A i \in LogIndex :
         /\ ex_log[i].op \in {"http", "browser", "listen"} => i > 2
         /\ (IsHttp(i) /\ ex_log[i].auth.exists) =>
              ex_log[i].auth.origin = ex_run
    /\ ts_doc.exists => ts_doc.origin = ex_run

\* A forced run on a populated store that ended, having issued a request
\* with an auth state again.
C9_Witness ==
  /\ ForcedOnPopulated
  /\ ex_pc = "done"
  /\ \E i \in LogIndex : IsHttp(i) /\ ex_log[i].auth.exists

\* C11: when the interactive authorization fails (error callback, missing
\* code, state mismatch, timeout), execute() ends with the error: the failure
\* is the last thing the run did, no request was or will be issued and no
\* dataset is written; and a run in which an HTTP call failed is not ended
\* by it.
AuthorizationFailed(i) == ex_log[i].op = "listen" /\ ex_log[i].why # ""
C11_AuthorizationFailureAborts ==
  /\ \A i \in LogIndex :
       AuthorizationFailed(i) =>
         /\ ex_pc = "failed"
         /\ ex_tasks = <<>>
         /\ i = Len(ex_log)
         /\ \A j \in LogIndex : ex_log[j].op \notin {"http", "datasets"}
         /\ ex_errors = <<authRequestOf(ex_manifest).name>>
  /\ (\E i \in LogIndex : IsHttp(i) /\ ex_log[i].failed) => ex_pc # "failed"
  /\ ex_pc = "done" => ex_log[Len(ex_log)].op = "datasets"

\* The authorization was rejected for a state mismatch and the run ended
\* with the error.
C11_Witness ==
  /\ ex_pc = "failed"
  /\ ex_log[Len(ex_log)].op = "listen"
  /\ ex_log[Len(ex_log)].why = "State parameter mismatch - possible CSRF attack"

\* C12: when the HTTP call of a request fails, the failure is counted and
\* one error recorded, no edge is resolved out of that request (none hangs
\* off it, none is lined up), and the run goes on with what was lined up
\* after it: sibling contexts, further targets, further entry requests.
FailedHttp == {i \in LogIndex : IsHttp(i) /\ ex_log[i].failed}
ThrownEdges == {i \in LogIndex : IsEdge(i) /\ ex_log[i].gate = "throws"}
HangsOff(i) ==
  \/ \E e \in LogIndex : IsEdge(e) /\ ex_log[e].via = i
  \/ \E k \in 1..Len(ex_tasks) :
       ex_tasks[k].op = "deps" /\ ex_tasks[k].via = i
FailsNow ==
  /\ Len(ex_log') = Len(ex_log)
  /\ \E i \in LogIndex : IsHttp(i) /\ ~ex_log[i].failed /\ ex_log'[i].failed
C12_FailedRequestEndsSubtreeOnly ==
  /\ [](/\ \A i \in FailedHttp : ~HangsOff(i)
        /\ ex_stats.failedRequests =
             Cardinality(FailedHttp) + Cardinality(ThrownEdges)
               + (IF ex_pc = "failed" THEN 1 ELSE 0)
        /\ Len(ex_errors) = ex_stats.failedRequests)
  /\ [][FailsNow =>
          /\ ex_pc' = "running"
          /\ ex_tasks' = Tail(ex_tasks)
          /\ ex_stats'.failedRequests = ex_stats.failedRequests + 1
          /\ ex_errors' = Append(ex_errors, Head(ex_tasks).name)
          /\ ex_responses' = ex_responses]_vars

\* The item request of the first id failed and the item of the second id
\* was fetched after it, through the same edge.
C12_Witness ==
  \E i, j \in LogIndex :
    /\ i < j /\ IsHttp(i) /\ IsHttp(j)
    /\ ex_log[i].name = "item" /\ ex_log[j].name = "item"
    /\ ex_log[i].failed /\ ~ex_log[j].failed /\ j \notin ex_inflight
    /\ ex_log[i].via = ex_log[j].via

\* C13: at most one HTTP request of the run is in flight at any moment: a
\* pending client.get (its retries and sleeps included) is the last request
\* issued, and the run waits for it, whatever else is lined up.
C13_OneRequestInFlight ==
  /\ Cardinality(ex_inflight) <= 1
  /\ \A i \in ex_inflight :
       /\ IsHttp(i)
       /\ \A j \in LogIndex : IsHttp(j) => j <= i
       /\ running /\ task.op = "await" /\ task.via = i

\* An item request is pending, in a retry, while the item request of the
\* sibling context of the same edge is lined up behind it.
C13_Witness ==
  /\ running /\ task.op = "await" /\ task.name = "item" /\ task.i > 0
  /\ ex_inflight = {task.via}
  /\ \E k \in 2..Len(ex_tasks) :
       /\ ex_tasks[k].op = "request" /\ ex_tasks[k].name = "item"
       /\ ex_tasks[k].via = ex_log[task.via].via

\* C14: requests are issued depth first in a fixed order: entry requests in
\* manifest order; the edges out of a request in manifest order; through an
\* edge, context after context and, within a context, target after target
\* in the order of `to`; and all that hangs under one request or edge comes
\* before its next sibling.
RECURSIVE Under(_, _)
Under(k, i) ==
  IF k = i THEN TRUE
  ELSE IF k = 0 \/ ex_log[k].op \notin {"http", "edge"} THEN FALSE
  ELSE Under(ex_log[k].via, i)
Siblings(a, b) ==
  /\ a < b
  /\ ex_log[a].op \in {"http", "edge"}
  /\ ex_log[a].op = ex_log[b].op
  /\ ex_log[a].via = ex_log[b].via
ChildrenOf(e) == {j \in LogIndex : IsHttp(j) /\ ex_log[j].via = e}
C14_DepthFirstInManifestOrder ==
  /\ \A a, b \in LogIndex :
       Siblings(a, b) =>
         /\ IsHttp(a) => ex_log[a].pos < ex_log[b].pos
         /\ IsEdge(a) => ex_log[a].dep < ex_log[b].dep
         /\ \A k \in LogIndex : Under(k, a) => k < b
  /\ \A j \in LogIndex :
       IsHttp(j) =>
         IF ex_log[j].via = 0
           THEN ex_log[j].name = findEntryRequests(ex_manifest)[ex_log[j].pos]
           ELSE LET dep == ex_manifest.deps[ex_log[ex_log[j].via].dep]
                    t == ((ex_log[j].pos - 1) % Len(dep.to)) + 1
                    c == ((ex_log[j].pos - 1) \div Len(dep.to)) + 1
                IN  /\ ex_log[j].name = dep.to[t]
                    /\ ex_log[j].name \in {"item", "detail"} =>
                         ex_log[j].url.args[1].v
                           = ex_responses["list"][1]["ids"].l[c]

\* A run that ended having fetched a page, and after it the item and the
\* detail of both ids.
C14_Witness ==
  /\ ex_pc = "done"
  /\ \E p \in LogIndex : IsHttp(p) /\ ex_log[p].name = "list_paged"
  /\ \E e \in LogIndex : IsEdge(e) /\ Cardinality(ChildrenOf(e)) = 4

\* C15: every request is issued with the auth state that is persisted at
\* that moment: the authState of its context is the token document as it
\* stands, whatever was written before, by whichever subtree.
C15_AuthStateFreshAtIssue ==
  \A i \in LogIndex : IsHttp(i) => ex_log[i].auth = ex_log[i].doc


(***************************************************************************)
(* Properties of the context objects (specification SpecContexts).         *)
(***************************************************************************)
ContextIndex == 1..Len(cx_ctx)

\* The contexts one resolution of an edge made out of one parent.
SiblingContexts(c, d) == c # d /\ cx_from[c] = cx_from[d] /\ cx_from[c].parent # 0

\* C16: whatever edges are resolved out of a context and out of its
\* children, the context keeps reading as it did when it was handed out:
\* its extractedData, authState, credentials and systemVariables are
\* unchanged; and two children of one edge never point to the same
\* extractedData record, nor does a child point to its parent's.
C16_ParentUntouchedSiblingsApart ==
  /\ \A c \in ContextIndex : DeepOf(cx_obj, cx_ctx[c]) = cx_made[c]
  /\ \A c, d \in ContextIndex :
       SiblingContexts(c, d) =>
         cx_ctx[c].extractedData # cx_ctx[d].extractedData
  /\ \A c \in ContextIndex :
       cx_from[c].parent # 0 =>
         cx_ctx[c].extractedData # cx_ctx[cx_from[c].parent].extractedData

\* A parent with two children of a two-name product, one of which is itself
\* the parent of a child that binds the name id again.
C16_Witness ==
  \E c, d, g \in ContextIndex :
    /\ SiblingContexts(c, d)
    /\ OHas(cx_obj[cx_ctx[c].extractedData], "kind")
    /\ cx_from[g].parent = c
    /\ OGet(cx_obj[cx_ctx[g].extractedData], "id")
         # OGet(cx_obj[cx_ctx[c].extractedData], "id")
    /\ cx_ctx[c].authState # cx_ctx[cx_from[c].parent].authState

\* The number of combinations of the value lists from the i-th on.
RECURSIVE combinations(_, _)
combinations(entries, i) ==
  IF i > Len(entries) THEN 1
  ELSE Len(entries[i].v) * combinations(entries, i + 1)

\* The value of the i-th name in the c-th combination, in lexicographic
\* index order: the first name varies slowest.
lexicographic(entries, c, i) ==
  entries[i].v[(((c - 1) \div combinations(entries, i + 1))
                  % Len(entries[i].v)) + 1]

EdgeIndex == 1..Len(cx_edges)

\* C17: an edge whose gate passed, with k names and value lists V1..Vk,
\* yields no child when k = 0, and otherwise |V1| * ... * |Vk| children (none
\* when a list is empty; one per value, in order, when k = 1); the c-th
\* child binds every name to its value in the c-th combination in
\* lexicographic index order. An edge whose gate did not pass yields none.
C17_ChildrenAreTheProduct ==
  \A e \in EdgeIndex :
    LET edge == cx_edges[e]
        k == Len(edge.entries)
    IN  /\ ~edge.gate => edge.children = 0
        /\ edge.gate /\ k = 0 => edge.children = 0
        /\ edge.gate /\ k > 0 =>
             /\ edge.children = combinations(edge.entries, 1)
             /\ \A c \in 1..edge.children :
                  LET child == cx_obj[cx_ctx[edge.first + c - 1].extractedData]
                  IN  /\ cx_from[edge.first + c - 1].parent = edge.parent
                      /\ \A i \in 1..k :
                           /\ OHas(child, edge.entries[i].k)
                           /\ OGet(child, edge.entries[i].k)
                                = lexicographic(edge.entries, c, i)

\* The product [1, 2] x [p, q] has been resolved: four children, the second
\* of which binds (1, q) and the third (2, p).
C17_Witness ==
  \E e \in EdgeIndex :
    /\ cx_edges[e].gate /\ cx_edges[e].children = 4
    /\ cx_edges[e].entries[1].v = <<MkS("1"), MkS("2")>>
    /\ LET second == cx_obj[cx_ctx[cx_edges[e].first + 1].extractedData]
           third == cx_obj[cx_ctx[cx_edges[e].first + 2].extractedData]
       IN  /\ OGet(second, "id") = MkS("1") /\ OGet(second, "kind") = MkS("q")
           /\ OGet(third, "id") = MkS("2") /\ OGet(third, "kind") = MkS("p")

(***************************************************************************)
(* Properties of findEntryRequests (specification SpecEntries).            *)
(***************************************************************************)
\* The requests of the manifest with the authorization function.
AuthorizationRequests ==
  {i \in 1..Len(fe_manifest.reqs) :
     fe_manifest.reqs[i].function = OAuth2Function}

\* The i-th request of the manifest is an entry point: (a) it has a URL, (b)
\* no {{ in the URL or in a header value, (c) it is not named env, (d) it is
\* not the authorization request (the first request with that function) nor
\* a target of an edge whose from holds the authorization request.
IsEntryPoint(i) ==
  LET req == fe_manifest.reqs[i]
  IN  /\ req.url # NoUrl
      /\ req.url.vars = <<>> /\ req.headers = <<>>
      /\ req.name # "env"
      /\ \A a \in AuthorizationRequests :
           (\A b \in AuthorizationRequests : a <= b) =>
             /\ req.name # fe_manifest.reqs[a].name
             /\ \A d \in 1..Len(fe_manifest.deps) :
                  ~(/\ \E f \in 1..Len(fe_manifest.deps[d].from) :
                         fe_manifest.deps[d].from[f] = fe_manifest.reqs[a].name
                    /\ \E t \in 1..Len(fe_manifest.deps[d].to) :
                         fe_manifest.deps[d].to[t] = req.name)

\* C18: findEntryRequests returns the names of exactly the requests that are
\* entry points by (a) to (d), in manifest order: there is an order
\* preserving one-to-one match between what it returned and the entry points
\* of the manifest.
C18_EntryRequestsExactlyInOrder ==
  LET points == {i \in 1..Len(fe_manifest.reqs) : IsEntryPoint(i)}
  IN  /\ Len(fe_found) = Cardinality(points)
      /\ \A k \in 1..Len(fe_found) :
           \E i \in points :
             /\ Cardinality({j \in points : j <= i}) = k
             /\ fe_found[k] = fe_manifest.reqs[i].name

\* A manifest whose authorization request would pass (a) to (c), with a
\* target of its edge and an entry point after them.
C18_Witness ==
  /\ fe_calls > 0
  /\ Len(fe_manifest.reqs) = 3
  /\ fe_manifest.reqs[1].name = "auth"
  /\ fe_manifest.reqs[2].name = "t"
  /\ fe_manifest.reqs[3].name = "a"
  /\ fe_manifest.deps = <<Dep(<<"auth">>, <<"t">>, <<>>, NoExpr, "")>>
  /\ fe_found = <<"a">>

(***************************************************************************)
(* Properties of the executor: edges of loadtype delta (SpecExec).         *)
(***************************************************************************)
DeltaEdges ==
  {d \in 1..Len(ex_manifest.deps) : ex_manifest.deps[d].loadtype = "delta"}

\* C19: no edge of loadtype delta is ever resolved, in the traversal or in
\* the OAuth2 sub-flow: no resolution of such an edge is on record, no
\* request was issued through one, and where every edge is of loadtype delta
\* no authy value is ever persisted.
C19_DeltaEdgesNeverResolved ==
  /\ \A i \in LogIndex : IsEdge(i) => ex_log[i].dep \notin DeltaEdges
  /\ \A i \in LogIndex :
       IsHttp(i) /\ ex_log[i].via # 0 =>
         ex_log[ex_log[i].via].dep \notin DeltaEdges
  /\ DeltaEdges = 1..Len(ex_manifest.deps) => ts_doc.authyValues = EmptyMap

(***************************************************************************)
(* Properties of TokenStorage (specification SpecStore).                   *)
(***************************************************************************)
\* C20: after any sequence of awaited calls of saveAuthyValue,
\* updateAccessToken and updateRefreshToken on one store, load() returns for
\* every field (accessToken, refreshToken, expiresAt, every authyValues key)
\* the value of the last call that set that field, and undefined when none
\* did: a call loses no field it does not set.
C20_ReadModifyWriteKeepsFields ==
  /\ ts_doc.accessToken = ts_written.accessToken
  /\ ts_doc.refreshToken = ts_written.refreshToken
  /\ ts_doc.expiresAt = ts_written.expiresAt
  /\ \A key \in AuthyKeys :
       getAuthyValue(ts_doc, key) = ts_written.authyValues[key]
  /\ \A key \in DOMAIN ts_doc.authyValues : key \in AuthyKeys

\* Three calls, one of each kind, the refresh token last: the authy value,
\* the access token and its expiry are still there.
C20_Witness ==
  /\ ts_calls = 3 /\ ts_last = "updateRefreshToken"
  /\ ts_doc.refreshToken = MkS("t2")
  /\ ts_doc.accessToken = MkS("t1")
  /\ ts_doc.expiresAt = 100000 + (3600 - 60) * 1000
  /\ getAuthyValue(ts_doc, "k1") = MkS("v1")

\* C21: isTokenExpired called right after updateAccessToken(t, ttl) with a
\* non-empty token and ttl <= 60 returns true.
C21_ShortLivedTokenIsExpired ==
  (/\ ts_last = "isTokenExpired" /\ ts_before = "updateAccessToken"
   /\ ts_ttl.given /\ ts_ttl.n <= 60)
    => ts_expired

(***************************************************************************)
(* Properties of saveDatasets (specification SpecDatasets).                *)
(***************************************************************************)
\* What a body contributes to a dataset: the elements of body.results when
\* that is an array, otherwise the whole body as one element.
ElementsOf(body) == IF body.isArray THEN body.results ELSE <<body>>

RECURSIVE ElementsOfAll(_)
ElementsOfAll(results) ==
  IF results = <<>> THEN <<>>
  ELSE ElementsOf(Head(results)) \o ElementsOfAll(Tail(results))

\* The concatenation over the request names of data, in order, of what the
\* stored responses of each contribute, in the order they were stored.
RECURSIVE Concatenation(_)
Concatenation(data) ==
  IF data = <<>> THEN <<>>
  ELSE (IF Has(ds_extracted, Head(data))
          THEN ElementsOfAll(ds_extracted[Head(data)])
          ELSE <<>>)
         \o Concatenation(Tail(data))

FilesOf(d) == {w \in 1..Len(ds_written) : ds_written[w].dataset = d}

\* C22: for each dataset a file is written if and only if the concatenation
\* of its data is not empty, and what is written is that concatenation.
C22_DatasetIsTheConcatenation ==
  \A d \in 1..Len(ds_datasets) :
    /\ (FilesOf(d) # {}) <=> (Concatenation(ds_datasets[d].data) # <<>>)
    /\ \A w \in FilesOf(d) :
         ds_written[w].records = Concatenation(ds_datasets[d].data)

(***************************************************************************)
(* Properties of the executor: expired tokens (SpecExec).                  *)
(***************************************************************************)
\* C23: no API request is issued with an access token that has expired
\* while a refresh token is stored: the token is renewed first.
C23_ExpiredTokenRefreshedFirst ==
  \A i \in LogIndex :
    (/\ IsHttp(i) /\ ~ex_log[i].sub
     /\ ex_log[i].doc.exists /\ Truthy(ex_log[i].doc.accessToken)
     /\ hasRefreshToken(ex_log[i].doc))
      => /\ ~isTokenExpired(ex_log[i].doc, RunClock)
         /\ ~isTokenExpired(ex_log[i].auth, RunClock)

(***************************************************************************)
(* Properties of the rate limiter (specification SpecLimiter).             *)
(***************************************************************************)
\* C24: however the calls of get interleave, the requests recorded in a
\* minute window never exceed the minute limit, nor those recorded in an
\* hour window the hour limit.
C24_WindowsNeverOverLimit ==
  /\ rl_windows.minute.count <= MinuteLimit
  /\ rl_windows.hour.count <= HourLimit

(***************************************************************************)
(* Properties of the executor: the OAuth2 sub-flow and the requests next   *)
(* to it (SpecExec).                                                       *)
(***************************************************************************)
\* The token-exchange requests: the targets of the edges out of the
\* authorization request.
TokenExchangeRequests ==
  getOAuth2RequestNames(ex_manifest) \ {authRequestOf(ex_manifest).name}

\* The targets of the edges that chain out of a token-exchange request.
ChainedTargets ==
  UNION {{ex_manifest.deps[d].to[t] : t \in 1..Len(ex_manifest.deps[d].to)} :
           d \in {e \in 1..Len(ex_manifest.deps) :
                    \E f \in 1..Len(ex_manifest.deps[e].from) :
                      ex_manifest.deps[e].from[f] \in TokenExchangeRequests}}

\* C25: inside the OAuth2 sub-flow no HTTP request is issued for a target of
\* an edge that chains out of a token-exchange request.
C25_ChainedTargetsNotRunInSubFlow ==
  \A i \in LogIndex :
    IsHttp(i) /\ ex_log[i].sub =>
      ex_log[i].name \notin (ChainedTargets \ TokenExchangeRequests)
\* C26: no request adjacent to the authorization (the authorization request
\* and every target of an edge out of it) is issued by the normal traversal,
\* neither as an entry request nor as the target of another edge.
C26_AdjacentRequestsNotIssuedAgain ==
  \A i \in LogIndex :
    IsHttp(i) /\ ~ex_log[i].sub
      => ex_log[i].name \notin getOAuth2RequestNames(ex_manifest)

\* C27: a request whose interpolated URL still names a variable that none of
\* extractedData, credentials, authState and systemVariables resolves is
\* skipped, so every placeholder left in the URL of a request that was issued
\* resolves from the credentials, the authState or the system variables,
\* whether or not the context carries an authState.
ResolvesOutsideExtractedData(key, auth) ==
  \/ Has(ExecCredentials, key)
  \/ key \in SystemVarNames
  \/ auth.exists /\ Has(auth.authyValues, key)
  \/ auth.exists /\ key \in {"accessToken", "refreshToken", "expiresAt"}
C27_UnresolvableUrlIsSkipped ==
  \A i \in LogIndex :
    IsHttp(i) =>
      \A k \in 1..Len(ex_log[i].url.args) :
        ~ex_log[i].url.args[k].resolved
          => ResolvesOutsideExtractedData(ex_log[i].url.args[k].key,
                                          ex_log[i].auth)

\* C28: a response whose status is outside 200..299 and that is not retried
\* (no retrywhere condition takes it, or the retries are used up) makes the
\* request fail, so the response a request returns to the executor, which
\* stores it and walks its edges, has a status within 200..299.
C28_NonOkResponseFailsRequest ==
  h_pc = "returned" => h_result.status \in 200..299

\* The transformers with every condition left out whose expression cannot be
\* evaluated against the response: the classifiers as they would scan if such
\* a condition counted as false.
Evaluable(c, result, ctx) == checkCondition(c, result, ctx).ok
withoutUnevaluable(trs, result, ctx) ==
  [i \in 1..Len(trs) |->
     [trs[i] EXCEPT
        !.retrywhere = SelectSeq(@, LAMBDA c : Evaluable(c, result, ctx)),
        !.failwhere = SelectSeq(@, LAMBDA c : Evaluable(c, result, ctx))]]
someUnevaluable(trs, result, ctx) ==
  withoutUnevaluable(trs, result, ctx) # trs

\* C29: a failwhere or retrywhere condition whose expression cannot be
\* evaluated counts as not matching.  An attempt whose response meets such a
\* condition, and that no other condition fails or retries, returns the
\* response: it is neither failed nor followed by a sleep or another attempt.
C29_UnevaluableConditionIsNoMatch ==
  [][(/\ h_pc = "loop" /\ attemptNumber < maxAttempts
      /\ nextOutcome.kind = "resp"
      /\ someUnevaluable(h_trs, resultOf(nextOutcome), h_ctx)
      /\ ~shouldFail(withoutUnevaluable(h_trs, resultOf(nextOutcome), h_ctx),
                     resultOf(nextOutcome), h_ctx).fail
      /\ ~shouldRetry(withoutUnevaluable(h_trs, resultOf(nextOutcome), h_ctx),
                      resultOf(nextOutcome), attemptNumber + 1, h_ctx).retry)
        => (h_pc' = "returned" /\ h_result' = resultOf(nextOutcome)
              /\ Sleeps(h_log') = Sleeps(h_log))]_vars

\* The condition of the retry scan that a response matches (0 when none
\* matches, or when the scan throws first).
retryMatch(trs, result, ctx) ==
  LET cs == flatConds(trs, "retry")
      i == firstHit(cs, 1, result, ctx)
  IN  IF i # 0 /\ checkCondition(cs[i].c, result, ctx).ok THEN i ELSE 0
retryTransformer(trs, result, ctx) ==
  flatConds(trs, "retry")[retryMatch(trs, result, ctx)].tr

\* C30: an attempt a whose response no failwhere condition takes and that
\* matches a retrywhere condition with a < retries is followed by a sleep of
\* exactly min(initialDelay * 2^(a - 1), maxWait) ms and the request goes on
\* to another attempt, for every initialDelay >= 0, 0 included.
C30_RetrySleepsBackoffThenGoesOn ==
  [][(/\ h_pc = "loop" /\ attemptNumber < maxAttempts
      /\ nextOutcome.kind = "resp"
      /\ ~shouldFail(h_trs, resultOf(nextOutcome), h_ctx).thrown
      /\ ~shouldFail(h_trs, resultOf(nextOutcome), h_ctx).fail
      /\ retryMatch(h_trs, resultOf(nextOutcome), h_ctx) # 0
      /\ attemptNumber + 1
           < maxRetriesOf(retryTransformer(h_trs, resultOf(nextOutcome),
                                           h_ctx)))
        => /\ h_pc' = "loop"
           /\ h_log' = h_log \o
                 <<Event("call", attemptNumber + 1),
                   Event("sleep",
                         retryDelay(retryTransformer(h_trs,
                                                     resultOf(nextOutcome),
                                                     h_ctx),
                                    attemptNumber + 1))>>]_vars

\* The call of client.get that brought the most recent response of a request
\* in the history (0 when it has none).
latestAnswered(name) ==
  LET js == {j \in LogIndex :
               IsHttp(j) /\ ex_log[j].name = name /\ ~ex_log[j].failed
                 /\ j \notin ex_inflight}
  IN  IF js = {} THEN 0 ELSE CHOOSE j \in js : \A k \in js : k <= j
\* processDependencies stands at a pagination edge of the response it walks,
\* next checked, applyDependency about to be called.
atPaginationEdge ==
  /\ running /\ task.op = "deps"
  /\ task.i <= Len(dependenciesOf(ex_manifest, task.name))
  /\ isPaginationDependency(
       ex_manifest.deps[dependenciesOf(ex_manifest, task.name)[task.i]])
  /\ nextOf(task.data).t \notin {"null", "undef"}

\* C31: when a pagination edge is resolved for response r of request R, the
\* response the resolver reads for R, the last one of R in the history, is r:
\* the response of the call whose edges are being walked, not a page that a
\* recursion appended since.
C31_PaginationReadsTheResponseAtHand ==
  atPaginationEdge =>
    /\ latestAnswered(task.name) = task.via
    /\ ex_responses[task.name][Len(ex_responses[task.name])] = task.data

\* C32: the callback listener is started before the browser is opened at the
\* authorize URL: every opening of the browser in a run comes after the call
\* of authorize, which creates the listener, in that run.
C32_ListenerStartedBeforeBrowser ==
  \A i \in LogIndex :
    ex_log[i].op = "browser" =>
      \E j \in 1..(i - 1) : ex_log[j].op = "listen"

\* C33: the authorize URL opened in the browser carries a redirect_uri and a
\* state query parameter, and its state is the state the callback is
\* validated against.
C33_OpenedUrlCarriesRedirectAndState ==
  au_pc = "listening" =>
    /\ searchHas(au_opened, "redirect_uri")
    /\ searchHas(au_opened, "state")
    /\ searchGet(au_opened, "state") = au_expected

OAuthSettled == oa_pc \in {"resolved", "rejected"}

\* C34: authorize always settles in the end.  A request to another path is
\* answered 404 and leaves the flow as it was; once a /callback request has
\* been answered the flow has resolved or rejected; while it waits the
\* timeout is still armed, and once the timeout has fired the flow has
\* settled; and when it has settled through a callback or the timeout, the
\* server is closed and no socket is tracked any more.
C34_AuthorizeSettlesAndTearsDown ==
  /\ (oa_pc = "waiting") ~> OAuthSettled
  /\ [][Len(oa_log') > Len(oa_log) /\ oa_log'[Len(oa_log')].path = "other"
         => oa_log'[Len(oa_log')].status = 404 /\ oa_pc' = oa_pc
              /\ oa_pc = "waiting"]_vars
  /\ []((\E i \in CallbackEntries : TRUE) => OAuthSettled)
  /\ [](oa_pc = "waiting" => oa_timer = "armed" /\ oa_server = "listening")
  /\ [](oa_timer = "fired" => OAuthSettled)
  /\ []((OAuthSettled /\ oa_error # "listen failed")
          => oa_server = "closed" /\ oa_sockets = 0)

\* C34 witness: the flow was rejected by the timeout after a request to
\* another path whose connection was still open, and nothing is left of the
\* listener.
C34_Witness ==
  /\ oa_pc = "rejected" /\ oa_error = "Authorization timeout"
  /\ Len(oa_log) > 0 /\ oa_log[1].path = "other"
  /\ oa_server = "closed" /\ oa_sockets = 0

\* A history that goes on from another: every name kept, its responses kept
\* in place, more of them at the end at most.
goesOnFrom(later, earlier) ==
  \A n \in DOMAIN earlier :
    /\ n \in DOMAIN later
    /\ Len(later[n]) >= Len(earlier[n])
    /\ SubSeq(later[n], 1, Len(earlier[n])) = earlier[n]
lengthIn(responseData, n) ==
  IF Has(responseData, n) THEN Len(responseData[n]) ELSE 0

\* C35: within a run the response history only grows at the end.  A request
\* that succeeds appends one response under its own name and nothing else
\* changes; the response of the authorization is stored under "env" and
\* under the name of the authorization request.
C35_ResponseHistoryAppendOnly ==
  [][ex_run' = ex_run =>
       /\ goesOnFrom(ex_responses', ex_responses)
       /\ (ex_stats'.successfulRequests # ex_stats.successfulRequests
             /\ task.op = "await")
            => /\ lengthIn(ex_responses', task.name)
                    = lengthIn(ex_responses, task.name) + 1
               /\ \A n \in DOMAIN ex_responses' \ {task.name} :
                    Has(ex_responses, n) /\ ex_responses'[n] = ex_responses[n]
       /\ (ex_stats'.successfulRequests # ex_stats.successfulRequests
             /\ task.op = "env")
            => /\ ex_responses'["env"] = <<AuthorizeBody>>
               /\ ex_responses'[authRequestOf(ex_manifest).name]
                    = <<AuthorizeBody>>
       /\ ex_stats'.successfulRequests = ex_stats.successfulRequests
            => ex_responses' = ex_responses]_vars

\* C35 witness: the second page of a paginated request was appended after
\* the first.
C35_Witness ==
  /\ Has(ex_responses, "list_paged") /\ Len(ex_responses["list_paged"]) = 2
  /\ ex_stats.successfulRequests = 3

\* C36: after a 429 response with a retry-after header of N seconds and
\* setRetryAfter(N), canProceed answers false until the N seconds are over:
\* before that instant no call of the client comes out of waitForSlot and
\* none records and issues a request.
C36_NoRequestBeforeRetryAfter ==
  [][rl_now < rl_retryAt =>
       \A c \in ClientCalls :
         /\ rl_calls'[c].pc = "slot" => rl_calls[c].pc = "slot"
         /\ rl_calls'[c].pc = "fetching" => rl_calls[c].pc = "fetching"]_vars

\* C37: at the end of a run that completes, totalRequests is the sum of
\* successfulRequests and failedRequests: every request issued is counted in
\* exactly one of the two, and nothing else is counted.
C37_TotalIsSuccessfulPlusFailed ==
  ex_pc = "done" =>
    ex_stats.totalRequests
      = ex_stats.successfulRequests + ex_stats.failedRequests

\* C38: in every state of a run the number of errors recorded equals
\* failedRequests.
C38_ErrorsMatchFailedRequests ==
  Len(ex_errors) = ex_stats.failedRequests

\* C38 witness: a run went on after a failed request and ended with two
\* requests failed and two errors recorded.
C38_Witness ==
  ex_pc = "done" /\ ex_stats.failedRequests = 2 /\ Len(ex_errors) = 2


\* In the normal traversal of a run no urlKey is handed to the client twice.
traversedOnce ==
  \A i, j \in LogIndex :
    (i < j /\ IsHttp(i) /\ IsHttp(j) /\ ~ex_log[i].sub /\ ~ex_log[j].sub) =>
      <<ex_log[i].name, ex_log[i].url>> # <<ex_log[j].name, ex_log[j].url>>

\* How far a run has come: what it has logged and counted, then the position
\* of every frame of the call stack from the outermost to the innermost; a
\* frame that has returned is ahead of every position it could be at.
progress ==
  <<Len(ex_log),
    ex_stats.totalRequests + ex_stats.successfulRequests
      + ex_stats.failedRequests>>
    \o [d \in 1..Len(ex_tasks) |-> ex_tasks[Len(ex_tasks) + 1 - d].i]
further(p, q, d) ==
  IF d <= Len(p) /\ d <= Len(q) THEN q[d] > p[d] ELSE d <= Len(p)
same(p, q, d) ==
  IF d <= Len(p) /\ d <= Len(q) THEN q[d] = p[d]
  ELSE d > Len(p) /\ d > Len(q)
ahead(p, q) ==
  \E d \in 1..Max(Len(p), Len(q)) :
    further(p, q, d) /\ \A e \in 1..(d - 1) : same(p, q, e)

\* The frame on top of the stack of a run under way has a step to take.
hasStep ==
  CASE task.op = "env" -> ENABLED ProcessEnvNode
    [] task.op = "authdep" -> ENABLED ResolveAuthDep
    [] task.op = "tokendeps" -> TRUE
    [] task.op = "request" -> ENABLED RequestSkipped \/ ENABLED RequestIssued
    [] task.op = "await" -> ENABLED RequestRetried \/ ENABLED RequestSettled
    [] task.op = "deps" ->
         \/ ENABLED DependencySkipped
         \/ task.i <= Len(dependenciesOf(ex_manifest, task.name))
    [] task.op = "reload" -> ENABLED ReloadAuthState
    [] task.op = "entries" -> ENABLED NextEntry \/ ENABLED ExecuteFinish
    [] OTHER -> FALSE

C40_NoPlaceholderInIssuedUrl ==
  \A i \in LogIndex :
    IsHttp(i) =>
      \A k \in 1..Len(ex_log[i].url.args) : ex_log[i].url.args[k].resolved

====
